---- MODULE Spec2Model ----
(***************************************************************************)
(* Authentication / session state machine of package accounts              *)
(* (mrvdot/appengine).  The model follows accounts.go (AuthenticateRequest *)
(* and the functions it calls), the package variables and types of the     *)
(* models file, and the external collaborators they use: the datastore,    *)
(* memcache and the clock.                                                 *)
(*                                                                         *)
(* Time is counted in hours (SessionTTL is 3 hours), one tick = one hour;  *)
(* the comparison of the code is kept (strictly after LastUsed + TTL).     *)
(* A *Session is a pointer: sessions made by createSession live on `heap`  *)
(* and are shared by every map that holds them; a session decoded from     *)
(* memcache is a fresh object that nothing else aliases, so it is carried  *)
(* by value inside the pointer.                                            *)
(***************************************************************************)
EXTENDS Integers, Sequences, FiniteSets, TLC

VARIABLES now, mockAccount, dsAccounts, dsUsers, memcache, heap, sessions,
          sessionToAccount, sessionToUser, authenticatedAccounts,
          authenticatedSessions, authenticatedUsers, handling, encryptionKey,
          dsDummy, saving, validating, result, last

vars == <<now, mockAccount, dsAccounts, dsUsers, memcache, heap, sessions,
          sessionToAccount, sessionToUser, authenticatedAccounts,
          authenticatedSessions, authenticatedUsers, handling, encryptionKey,
          dsDummy, saving, validating, result, last>>

\* ---------------------------------------------------------------- bounds
\* The clock runs from 0 to MaxTime.
MaxTime == 4
\* At most MaxObjs sessions are ever created by createSession.
MaxObjs == 1
\* Initialization vectors are drawn from 1..NumIvs.
NumIvs == 2
\* The cipher's block size in bytes (aes.BlockSize, scaled down).
BlockSize == 2
\* Byte payloads have at most MaxLen bytes.
MaxLen == 3

\* ------------------------------------------------------ program constants
SessionTTL == 3

Unauthenticated == "No account has been authenticated for this request"
NoSuchSession == "No account matches that session"
NoSuchAccount == "No account matches that slug"
InvalidApiKey == "API Key does not match account"
SessionExpired == "Session has expired, please reauthenticate"
InvalidPassword == "That password is not valid for this user"
OrphanedUser == "Orphaned user object has no account"
DatastoreDone == "datastore: query has no more results"
NoErr == "<nil>"
\* The outcome of a handler that did not return: a run-time panic.
Panic == "panic"

Headers ==
    [account |-> "X-account", key |-> "X-key", session |-> "X-session",
     username |-> "X-username", password |-> "X-password"]

\* Headers[k] of a Go map: the zero value "" for a key the map does not have.
HeadersAt(k) == IF k \in DOMAIN Headers THEN Headers[k] ELSE ""

\* ------------------------------------------------------------- the world
Procs == {1, 2}
ReqIds == {"r1", "r2"}

NilKey == ""
AccountKey(slug) == "Account:" \o slug
UserKey(name) == "User:" \o name

NilAccount == [nil |-> TRUE, Slug |-> "", ApiKey |-> "", Key |-> NilKey]
Account(slug, apiKey, key) ==
    [nil |-> FALSE, Slug |-> slug, ApiKey |-> apiKey, Key |-> key]

NilUser ==
    [nil |-> TRUE, Username |-> "", Password |-> "",
     EncryptedPassword |-> <<>>,
     AccountKey |-> NilKey, LastLogin |-> 0, Key |-> NilKey]

ZeroSession ==
    [Key |-> "", Account |-> NilKey, User |-> NilKey, Initialized |-> 0,
     LastUsed |-> 0, TTL |-> 0]

\* *Session values: nil, a session on the heap, or a fresh decoded copy.
NilSession == [nil |-> TRUE, id |-> 0, val |-> ZeroSession]
HeapPtr(i) == [nil |-> FALSE, id |-> i, val |-> ZeroSession]
CopyPtr(rec) == [nil |-> FALSE, id |-> 0, val |-> rec]

\* fmt.Sprintf("%x", md5(slug + "-" + nanos)): the digest is kept symbolic,
\* equal inputs give equal tokens and different inputs different tokens.
Token(slug, t) == "md5(" \o slug \o "-" \o ToString(t) \o ")"

MapPut(m, k, v) == (k :> v) @@ m
MapDel(m, k) == [x \in DOMAIN m \ {k} |-> m[x]]

\* The mutable state a call works on, as one value.
St ==
    [now |-> now, mockAccount |-> mockAccount, dsAccounts |-> dsAccounts,
     dsUsers |-> dsUsers, memcache |-> memcache, heap |-> heap,
     sessions |-> sessions, sessionToAccount |-> sessionToAccount,
     sessionToUser |-> sessionToUser,
     authenticatedAccounts |-> authenticatedAccounts,
     authenticatedSessions |-> authenticatedSessions,
     authenticatedUsers |-> authenticatedUsers,
     handling |-> handling, encryptionKey |-> encryptionKey,
     dsDummy |-> dsDummy, saving |-> saving, validating |-> validating,
     result |-> result]

Commit(S) ==
    /\ now' = S.now
    /\ mockAccount' = S.mockAccount
    /\ dsAccounts' = S.dsAccounts
    /\ dsUsers' = S.dsUsers
    /\ memcache' = S.memcache
    /\ heap' = S.heap
    /\ sessions' = S.sessions
    /\ sessionToAccount' = S.sessionToAccount
    /\ sessionToUser' = S.sessionToUser
    /\ authenticatedAccounts' = S.authenticatedAccounts
    /\ authenticatedSessions' = S.authenticatedSessions
    /\ authenticatedUsers' = S.authenticatedUsers
    /\ handling' = S.handling
    /\ encryptionKey' = S.encryptionKey
    /\ dsDummy' = S.dsDummy
    /\ saving' = S.saving
    /\ validating' = S.validating
    /\ result' = S.result

\* The Session a pointer points to.
Deref(S, ptr) == IF ptr.id > 0 THEN S.heap[ptr.id] ELSE ptr.val

\* ------------------------------------------------------------- requests
HeaderNames == {"X-account", "X-key", "X-session", "X-username", "X-password", "Origin"}
NoCookie == [present |-> FALSE, value |-> ""]
Cookie(v) == [present |-> TRUE, value |-> v]

\* req.Header.Get(name): "" for a header the request does not carry.
HeaderGet(req, name) ==
    IF name \in DOMAIN req.header THEN req.header[name] ELSE ""

Request(a, k, u, pw, sh, ck, o) ==
    [header |-> ("X-account" :> a) @@ ("X-key" :> k) @@ ("X-username" :> u)
                @@ ("X-password" :> pw) @@ ("X-session" :> sh) @@ ("Origin" :> o),
     cookie |-> ck]

NoRequest == Request("", "", "", "", "", NoCookie, "")

\* url.Parse on the Origin values the model draws: "" and a well-formed
\* origin parse, a bad percent-escape is an error and the *URL is nil.
ValidOrigin == "http://example.com:8080"
BadOrigin == "%zz"
UrlParse(raw) ==
    IF raw = BadOrigin THEN [err |-> TRUE, nil |-> TRUE, Host |-> ""]
    ELSE IF raw = ValidOrigin THEN [err |-> FALSE, nil |-> FALSE, Host |-> "example.com:8080"]
    ELSE [err |-> FALSE, nil |-> FALSE, Host |-> ""]

\* strings.Split(domain, ":")[0] on the hosts UrlParse yields.
StripPort(host) == IF host = "example.com:8080" THEN "example.com" ELSE host

NoResponse == [header |-> "", expose |-> "", cookie |-> NoCookie, domain |-> "", path |-> ""]

\* ------------------------------------------------------- datastore reads
\* datastore.Get(ctx, key, &Account{}) followed by the caller's use of it:
\* the Key field is tagged datastore:"-" and comes back nil.
DatastoreGetAccount(S, key) ==
    IF key \in DOMAIN S.dsAccounts
    THEN [acct |-> Account(S.dsAccounts[key].Slug, S.dsAccounts[key].ApiKey, NilKey),
          err |-> NoErr]
    ELSE [acct |-> NilAccount, err |-> "datastore: no such entity"]

\* acct.GetKey(ctx): the cached key, or the key named after the slug, cached.
GetKey(acct) ==
    IF acct.Key # NilKey THEN acct ELSE [acct EXCEPT !.Key = AccountKey(acct.Slug)]

\* acct.Load(ctx)
Load(acct) == GetKey(acct)

getAccountFromSlug_wrongKeyAccepted(S, slug, apiKey) ==
    LET matches == {k \in DOMAIN S.dsAccounts : S.dsAccounts[k].Slug = slug}
    IN  IF matches = {}
        THEN [acct |-> NilAccount, err |-> NoSuchAccount]
        ELSE LET e == S.dsAccounts[CHOOSE k \in matches : TRUE]
             IN  [acct |-> Load(Account(e.Slug, e.ApiKey, NilKey)), err |-> NoErr]

\* Query "Account" filtered on Slug, limit 1; then the exact key comparison.
getAccountFromSlug(S, slug, apiKey) ==
    LET matches == {k \in DOMAIN S.dsAccounts : S.dsAccounts[k].Slug = slug}
    IN  IF matches = {}
        THEN [acct |-> NilAccount, err |-> NoSuchAccount]
        ELSE LET e == S.dsAccounts[CHOOSE k \in matches : TRUE]
             IN  IF e.ApiKey # apiKey
                 THEN [acct |-> NilAccount, err |-> InvalidApiKey]
                 ELSE [acct |-> Load(Account(e.Slug, e.ApiKey, NilKey)), err |-> NoErr]

\* MockAccount(acct)
MockAccount(S, p, acct) == [S EXCEPT !.mockAccount[p] = acct]

\* --------------------------------------------- request identity cache
\* map[string]*T{}
EmptyCache == [x \in {} |-> 0]

storeAuthenticatedRequest_keepFirst(S, p, r, acct, session, user) ==
    IF r \in DOMAIN S.authenticatedAccounts[p] THEN S
    ELSE [S EXCEPT !.authenticatedAccounts[p] = MapPut(@, r, acct),
                   !.authenticatedSessions[p] = MapPut(@, r, session),
                   !.authenticatedUsers[p] = MapPut(@, r, user)]

storeAuthenticatedRequest_usersOnlyWhenSet(S, p, r, acct, session, user) ==
    [S EXCEPT !.authenticatedAccounts[p] = MapPut(@, r, acct),
              !.authenticatedSessions[p] = MapPut(@, r, session),
              !.authenticatedUsers[p] = IF user.nil THEN @ ELSE MapPut(@, r, user)]

storeAuthenticatedRequest(S, p, r, acct, session, user) ==
    [S EXCEPT !.authenticatedAccounts[p] = MapPut(@, r, acct),
              !.authenticatedSessions[p] = MapPut(@, r, session),
              !.authenticatedUsers[p] = MapPut(@, r, user)]

ClearAuthenticatedRequest_all(S, p, r) ==
    [S EXCEPT !.authenticatedAccounts[p] = EmptyCache,
              !.authenticatedSessions[p] = EmptyCache,
              !.authenticatedUsers[p] = EmptyCache]

ClearAuthenticatedRequest(S, p, r) ==
    [S EXCEPT !.authenticatedAccounts[p] = MapDel(@, r),
              !.authenticatedSessions[p] = MapDel(@, r),
              !.authenticatedUsers[p] = MapDel(@, r)]

GetAccount_noMock(S, p, r) ==
    IF r \in DOMAIN S.authenticatedAccounts[p]
    THEN [acct |-> S.authenticatedAccounts[p][r], err |-> NoErr]
    ELSE [acct |-> NilAccount, err |-> Unauthenticated]

GetAccount(S, p, r) ==
    IF ~S.mockAccount[p].nil THEN [acct |-> S.mockAccount[p], err |-> NoErr]
    ELSE IF r \in DOMAIN S.authenticatedAccounts[p]
    THEN [acct |-> S.authenticatedAccounts[p][r], err |-> NoErr]
    ELSE [acct |-> NilAccount, err |-> Unauthenticated]

GetUser(S, p, r) ==
    IF r \in DOMAIN S.authenticatedUsers[p]
    THEN [user |-> S.authenticatedUsers[p][r], err |-> NoErr]
    ELSE [user |-> NilUser, err |-> Unauthenticated]

GetSession(S, p, r) ==
    IF r \in DOMAIN S.authenticatedSessions[p]
    THEN [session |-> S.authenticatedSessions[p][r], err |-> NoErr]
    ELSE [session |-> NilSession, err |-> Unauthenticated]

\* ------------------------------------------------------- session store
\* The process-local map first, then memcache under "session-" + key, whose
\* item is decoded into a new Session.
getSession_sharedFirst(S, p, key) ==
    IF key \in DOMAIN S.memcache
    THEN [session |-> CopyPtr(S.memcache[key]), err |-> NoErr]
    ELSE IF key \in DOMAIN S.sessions[p]
    THEN [session |-> S.sessions[p][key], err |-> NoErr]
    ELSE [session |-> NilSession, err |-> "memcache: cache miss"]

getSession(S, p, key) ==
    IF key \in DOMAIN S.sessions[p]
    THEN [session |-> S.sessions[p][key], err |-> NoErr]
    ELSE IF key \in DOMAIN S.memcache
    THEN [session |-> CopyPtr(S.memcache[key]), err |-> NoErr]
    ELSE [session |-> NilSession, err |-> "memcache: cache miss"]

storeSession_sharedOnly(S, p, session, acct, user, setOk) ==
    LET rec == Deref(S, session)
    IN  IF setOk THEN [S EXCEPT !.memcache = MapPut(@, rec.Key, rec)] ELSE S

\* setOk: whether memcache.Gob.Set succeeded (its error is only logged).
storeSession(S, p, session, acct, user, setOk) ==
    LET rec == Deref(S, session)
        S1 == [S EXCEPT !.sessions[p] = MapPut(@, rec.Key, session),
                        !.sessionToAccount[p] = MapPut(@, session.id, acct),
                        !.sessionToUser[p] = MapPut(@, session.id, user)]
    IN  IF setOk THEN [S1 EXCEPT !.memcache = MapPut(@, rec.Key, rec)] ELSE S1

createSession_noUser(S, p, r, acct, user, setOk) ==
    LET a == GetKey(acct)
        rec == [Key |-> Token(a.Slug, S.now), Account |-> a.Key, User |-> NilKey,
                Initialized |-> S.now, LastUsed |-> S.now, TTL |-> SessionTTL]
        S0 == [S EXCEPT !.heap = Append(@, rec)]
        session == HeapPtr(Len(S0.heap))
        S1 == storeSession(S0, p, session, a, user, setOk)
        S2 == storeAuthenticatedRequest(S1, p, r, a, session, user)
    IN  [S |-> S2, session |-> session, acct |-> a, err |-> NoErr]

createSession(S, p, r, acct, user, setOk) ==
    LET a == GetKey(acct)
        rec == [Key |-> Token(a.Slug, S.now), Account |-> a.Key,
                User |-> IF user.nil THEN NilKey ELSE UserKey(user.Username),
                Initialized |-> S.now, LastUsed |-> S.now, TTL |-> SessionTTL]
        S0 == [S EXCEPT !.heap = Append(@, rec)]
        session == HeapPtr(Len(S0.heap))
        S1 == storeSession(S0, p, session, a, user, setOk)
        S2 == storeAuthenticatedRequest(S1, p, r, a, session, user)
    IN  [S |-> S2, session |-> session, acct |-> a, err |-> NoErr]

getAccountFromSession(S, p, session) ==
    IF session.id \in DOMAIN S.sessionToAccount[p]
    THEN [acct |-> S.sessionToAccount[p][session.id], err |-> NoErr]
    ELSE LET got == DatastoreGetAccount(S, Deref(S, session).Account)
         IN  IF got.err # NoErr
             THEN [acct |-> NilAccount, err |-> NoSuchSession]
             ELSE [acct |-> Load(got.acct), err |-> NoErr]

\* ------------------------------------------------------ authentication
authenticateAccount_failsOnStore(S, p, r, accountSlug, accountKey, setOk) ==
    LET got == getAccountFromSlug(S, accountSlug, accountKey)
        made == createSession(S, p, r, got.acct, NilUser, setOk)
    IN  IF got.err # NoErr
        THEN [S |-> S, acct |-> NilAccount, err |-> got.err]
        ELSE IF ~setOk
        THEN [S |-> made.S, acct |-> NilAccount, err |-> "memcache: server error"]
        ELSE [S |-> made.S, acct |-> made.acct, err |-> NoErr]

authenticateAccount_cachesFailure(S, p, r, accountSlug, accountKey, setOk) ==
    LET got == getAccountFromSlug(S, accountSlug, accountKey)
    IN  IF got.err # NoErr
        THEN [S |-> storeAuthenticatedRequest(S, p, r, NilAccount, NilSession, NilUser),
              acct |-> NilAccount, err |-> got.err]
        ELSE LET made == createSession(S, p, r, got.acct, NilUser, setOk)
             IN  [S |-> made.S, acct |-> made.acct, err |-> NoErr]

authenticateAccount(S, p, r, accountSlug, accountKey, setOk) ==
    LET got == getAccountFromSlug(S, accountSlug, accountKey)
    IN  IF got.err # NoErr
        THEN [S |-> S, acct |-> NilAccount, err |-> got.err]
        ELSE LET made == createSession(S, p, r, got.acct, NilUser, setOk)
             IN  [S |-> made.S, acct |-> made.acct, err |-> NoErr]

\* session.LastUsed = now, through the pointer.
Touch(S, session) ==
    IF session.id > 0
    THEN [S |-> [S EXCEPT !.heap[session.id].LastUsed = S.now], session |-> session]
    ELSE [S |-> S, session |-> CopyPtr([session.val EXCEPT !.LastUsed = S.now])]

authenticateSession_expiresAtTTL(S, p, r, sessionKey) ==
    LET gs == getSession(S, p, sessionKey)
        ga == getAccountFromSession(S, p, gs.session)
        rec == Deref(S, gs.session)
        t == Touch(S, gs.session)
    IN  IF gs.err # NoErr \/ ga.err # NoErr
        THEN [S |-> S, acct |-> NilAccount, session |-> NilSession, err |-> Unauthenticated]
        ELSE IF S.now >= rec.LastUsed + rec.TTL
        THEN [S |-> S, acct |-> NilAccount, session |-> NilSession, err |-> SessionExpired]
        ELSE [S |-> storeAuthenticatedRequest(t.S, p, r, ga.acct, t.session, NilUser),
              acct |-> ga.acct, session |-> t.session, err |-> NoErr]

authenticateSession_noSuchSession(S, p, r, sessionKey) ==
    LET gs == getSession(S, p, sessionKey)
        ga == getAccountFromSession(S, p, gs.session)
        rec == Deref(S, gs.session)
        t == Touch(S, gs.session)
    IN  IF gs.err # NoErr
        THEN [S |-> S, acct |-> NilAccount, session |-> NilSession, err |-> Unauthenticated]
        ELSE IF ga.err # NoErr
        THEN [S |-> S, acct |-> NilAccount, session |-> NilSession, err |-> ga.err]
        ELSE IF S.now > rec.LastUsed + rec.TTL
        THEN [S |-> S, acct |-> NilAccount, session |-> NilSession, err |-> SessionExpired]
        ELSE [S |-> storeAuthenticatedRequest(t.S, p, r, ga.acct, t.session, NilUser),
              acct |-> ga.acct, session |-> t.session, err |-> NoErr]

authenticateSession_touchFirst(S, p, r, sessionKey) ==
    LET gs == getSession(S, p, sessionKey)
        ga == getAccountFromSession(S, p, gs.session)
        rec == Deref(S, gs.session)
        t == Touch(S, gs.session)
    IN  IF gs.err # NoErr
        THEN [S |-> S, acct |-> NilAccount, session |-> NilSession, err |-> Unauthenticated]
        ELSE IF ga.err # NoErr
        THEN [S |-> S, acct |-> NilAccount, session |-> NilSession, err |-> Unauthenticated]
        ELSE IF S.now > rec.LastUsed + rec.TTL
        THEN [S |-> t.S, acct |-> NilAccount, session |-> NilSession, err |-> SessionExpired]
        ELSE [S |-> storeAuthenticatedRequest(t.S, p, r, ga.acct, t.session, NilUser),
              acct |-> ga.acct, session |-> t.session, err |-> NoErr]

authenticateSession(S, p, r, sessionKey) ==
    LET gs == getSession(S, p, sessionKey)
        ga == getAccountFromSession(S, p, gs.session)
        rec == Deref(S, gs.session)
        t == Touch(S, gs.session)
    IN  IF gs.err # NoErr
        THEN [S |-> S, acct |-> NilAccount, session |-> NilSession, err |-> Unauthenticated]
        ELSE IF ga.err # NoErr
        THEN [S |-> S, acct |-> NilAccount, session |-> NilSession, err |-> Unauthenticated]
        ELSE IF S.now > rec.LastUsed + rec.TTL
        THEN [S |-> S, acct |-> NilAccount, session |-> NilSession, err |-> SessionExpired]
        ELSE [S |-> storeAuthenticatedRequest(t.S, p, r, ga.acct, t.session, NilUser),
              acct |-> ga.acct, session |-> t.session, err |-> NoErr]

\* ------------------------------------------------------------- users
\* Bytes have ByteBits bits.
ByteBits == 2
Bytes == 0..(2^ByteBits - 1)

\* The bitwise exclusive or of two bytes (cipher.Stream.XORKeyStream).
RECURSIVE Xor(_, _)
Xor(a, b) ==
    IF a = 0 THEN b
    ELSE IF b = 0 THEN a
    ELSE ((a + b) % 2) + 2 * Xor(a \div 2, b \div 2)

\* The block cipher of aes.NewCipher(key) applied to one block: AES is
\* kept abstract, as a function of the key and the block that mixes every
\* byte of the block with its neighbour and the key.
AesEncrypt(key, block) ==
    [i \in 1..Len(block) |->
        (3 * block[i] + block[(i % Len(block)) + 1]
           + key[((i - 1) % Len(key)) + 1] + i) % (2^ByteBits)]

\* The first n elements of a sequence, and the rest.
Take(seq, n) == SubSeq(seq, 1, IF n < Len(seq) THEN n ELSE Len(seq))
Drop(seq, n) == SubSeq(seq, n + 1, Len(seq))

RECURSIVE CFBEncrypter(_, _, _)
\* cipher.NewCFBEncrypter(block, iv).XORKeyStream: each block of the input
\* is xored with the encryption of the previous ciphertext block.
CFBEncrypter(key, prev, src) ==
    IF src = <<>> THEN <<>>
    ELSE LET ks == AesEncrypt(key, prev)
             in == Take(src, BlockSize)
             out == [i \in 1..Len(in) |-> Xor(in[i], ks[i])]
         IN  out \o CFBEncrypter(key, out, Drop(src, BlockSize))

RECURSIVE CFBDecrypter_plainFeedback(_, _, _)
CFBDecrypter_plainFeedback(key, prev, src) ==
    IF src = <<>> THEN <<>>
    ELSE LET ks == AesEncrypt(key, prev)
             in == Take(src, BlockSize)
             out == [i \in 1..Len(in) |-> Xor(in[i], ks[i])]
         IN  out \o CFBDecrypter_plainFeedback(key, out, Drop(src, BlockSize))

RECURSIVE CFBDecrypter(_, _, _)
\* cipher.NewCFBDecrypter(block, iv).XORKeyStream: the same key stream,
\* fed back from the ciphertext.
CFBDecrypter(key, prev, src) ==
    IF src = <<>> THEN <<>>
    ELSE LET ks == AesEncrypt(key, prev)
             in == Take(src, BlockSize)
             out == [i \in 1..Len(in) |-> Xor(in[i], ks[i])]
         IN  out \o CFBDecrypter(key, in, Drop(src, BlockSize))

\* encryptionKey before SetEncryptionKey: nil.
NoKey == <<>>
\* The key sizes aes.NewCipher accepts (16, 24 and 32 bytes for a block of 16).
KeySizes == {BlockSize, BlockSize + (BlockSize \div 2), 2 * BlockSize}
InvalidKeySize == "crypto/aes: invalid key size"

\* SetEncryptionKey(key)
SetEncryptionKey(S, p, key) ==
    IF Len(key) \notin KeySizes
    THEN [S |-> S, err |-> InvalidKeySize]
    ELSE [S |-> [S EXCEPT !.encryptionKey[p] = key], err |-> NoErr]

\* encrypt(plaintext) with the process's key; iv is what rand.Reader put
\* into the first block of the ciphertext.
encrypt(key, plaintext, iv) ==
    IF Len(key) = 0
    THEN [out |-> <<>>, err |-> Panic]
    ELSE [out |-> iv \o CFBEncrypter(key, iv, plaintext), err |-> NoErr]

CiphertextTooShort == "ciphertext too short"

\* decrypt(ciphertext) with the process's key.
decrypt(key, ciphertext) ==
    IF Len(key) = 0
    THEN [out |-> <<>>, err |-> Panic]
    ELSE IF Len(ciphertext) < BlockSize
    THEN [out |-> <<>>, err |-> CiphertextTooShort]
    ELSE [out |-> CFBDecrypter(key, Take(ciphertext, BlockSize),
                               Drop(ciphertext, BlockSize)),
          err |-> NoErr]

\* The key the deployment configures.
ConfiguredKey == [i \in 1..BlockSize |-> i % (2^ByteBits)]

\* []byte(password) for the passwords of the model.
ToBytes(password) ==
    CASE password = "" -> <<>>
      [] password = "pw" -> <<1, 2, 3>>
      [] password = "wrong" -> <<1, 2, 0>>
      [] OTHER -> <<0>>

\* The initialization vectors rand.Reader hands out.
Iv(n) == [i \in 1..BlockSize |-> IF i = 1 THEN n ELSE 0]

\* The vector rand.Reader gives the encryption after one that drew iv: the
\* model hands them out in rotation, so successive encryptions differ.
NextIv(iv) == (iv % NumIvs) + 1

\* The vector drawn when a ciphertext is replaced by a new one.
DrawnIv(ciphertext) ==
    Iv(NextIv(IF ciphertext = <<>> THEN 0 ELSE ciphertext[1]))

\* u.validatePassword(password): a decryption error is a mismatch; without
\* a key decrypt panics.
validatePassword(key, u, password) ==
    LET decrypted == decrypt(key, u.EncryptedPassword)
    IN  [panic |-> decrypted.err = Panic,
         ok |-> decrypted.err = NoErr /\ decrypted.out = ToBytes(password)]

\* User.BeforeSave as run by aeutils.Save from User.Authenticate; without
\* a key encrypt panics.
UserBeforeSave(S, p, r, u) ==
    LET encrypted == encrypt(S.encryptionKey[p], ToBytes(u.Password),
                             DrawnIv(u.EncryptedPassword))
        u1 == IF u.Password # ""
              THEN [u EXCEPT !.Password = "", !.EncryptedPassword = encrypted.out]
              ELSE u
        acct == GetAccount(S, p, r).acct
    IN  IF u.Password # "" /\ encrypted.err = Panic
        THEN [user |-> u, panic |-> TRUE]
        ELSE [user |-> IF ~acct.nil THEN [u1 EXCEPT !.AccountKey = acct.Key] ELSE u1,
              panic |-> FALSE]

\* AuthenticateUser / User.Authenticate: the account filter is applied to a
\* derived query that is dropped, so the lookup is by username alone.
AuthenticateUser(S, p, r, username, password) ==
    LET matches == {k \in DOMAIN S.dsUsers : S.dsUsers[k].Username = username}
    IN  IF matches = {}
        THEN [S |-> S, user |-> NilUser, err |-> DatastoreDone]
        ELSE LET k == CHOOSE x \in matches : TRUE
                 e == S.dsUsers[k]
                 u == [nil |-> FALSE, Username |-> e.Username, Password |-> password,
                       EncryptedPassword |-> e.EncryptedPassword,
                       AccountKey |-> e.AccountKey, LastLogin |-> e.LastLogin,
                       Key |-> NilKey]
                 valid == validatePassword(S.encryptionKey[p], u, password)
                 hooked == UserBeforeSave(S, p, r, [u EXCEPT !.LastLogin = S.now])
                 saved == [hooked.user EXCEPT !.Key = k]
             IN  IF valid.panic \/ (valid.ok /\ hooked.panic)
                 THEN [S |-> S, user |-> NilUser, err |-> Panic]
                 ELSE IF valid.ok
                 THEN [S |-> [S EXCEPT !.dsUsers[k] =
                                 [Username |-> saved.Username,
                                  EncryptedPassword |-> saved.EncryptedPassword,
                                  AccountKey |-> saved.AccountKey,
                                  LastLogin |-> saved.LastLogin]],
                       user |-> saved, err |-> NoErr]
                 ELSE [S |-> S, user |-> NilUser, err |-> InvalidPassword]

\* User.Account(ctx)
UserAccount(S, u) ==
    IF u.AccountKey = NilKey THEN NilAccount
    ELSE DatastoreGetAccount(S, u.AccountKey).acct

authenticateAccountByUser(S, p, r, username, password, setOk) ==
    LET au == AuthenticateUser(S, p, r, username, password)
        acct == UserAccount(au.S, au.user)
    IN  IF au.err # NoErr
        THEN [S |-> S, acct |-> NilAccount, err |-> au.err]
        ELSE IF acct.nil
        THEN [S |-> au.S, acct |-> NilAccount, err |-> OrphanedUser]
        ELSE LET made == createSession(au.S, p, r, acct, au.user, setOk)
             IN  [S |-> made.S, acct |-> made.acct, err |-> NoErr]

\* ------------------------------------------------- the request handler
sessionKeyFromRequest_cookieFirst(req) ==
    IF req.cookie.present /\ req.cookie.value # ""
    THEN req.cookie.value
    ELSE HeaderGet(req, HeadersAt("session"))

\* The header first, then the cookie of the same name.
sessionKeyFromRequest(req) ==
    LET sessionKey == HeaderGet(req, HeadersAt("session"))
    IN  IF sessionKey = ""
        THEN IF ~req.cookie.present THEN "" ELSE req.cookie.value
        ELSE sessionKey

\* sendSession: session.Key through a nil session, and reqUrl.Host through
\* the nil *URL of a failed url.Parse, are nil dereferences.
sendSession(S, req, session) ==
    LET parsed == UrlParse(HeaderGet(req, "Origin"))
    IN  IF session.nil \/ (parsed.err /\ parsed.nil)
        THEN [panic |-> TRUE, resp |-> NoResponse]
        ELSE [panic |-> FALSE,
              resp |-> [header |-> Deref(S, session).Key,
                        expose |-> HeadersAt("session"),
                        cookie |-> Cookie(Deref(S, session).Key),
                        domain |-> IF parsed.err THEN StripPort(parsed.Host) ELSE "",
                        path |-> "/"]]

\* What AuthenticateRequest does after a credential path has produced res.
Answer(res, req, p, r, via) ==
    IF res.err # NoErr
    THEN [S |-> res.S, acct |-> res.acct, err |-> res.err, resp |-> NoResponse, via |-> via]
    ELSE LET sent == sendSession(res.S, req, GetSession(res.S, p, r).session)
         IN  IF sent.panic
             THEN [S |-> res.S, acct |-> NilAccount, err |-> Panic,
                   resp |-> NoResponse, via |-> via]
             ELSE [S |-> res.S, acct |-> res.acct, err |-> NoErr,
                   resp |-> sent.resp, via |-> via]

AuthenticateRequest_bothHeaders(S, p, r, req, setOk) ==
    LET slug == HeaderGet(req, HeadersAt("account"))
        apiKey == HeaderGet(req, HeadersAt("key"))
        sessionKey == sessionKeyFromRequest(req)
    IN  IF ~S.mockAccount[p].nil
        THEN [S |-> S, acct |-> S.mockAccount[p], err |-> NoErr,
              resp |-> NoResponse, via |-> "mock"]
        ELSE IF slug # "" /\ apiKey # ""
        THEN Answer(authenticateAccount(S, p, r, slug, apiKey, setOk),
                    req, p, r, "account")
        ELSE IF sessionKey = ""
        THEN [S |-> S, acct |-> NilAccount, err |-> Unauthenticated,
              resp |-> NoResponse, via |-> "none"]
        ELSE LET res == authenticateSession(S, p, r, sessionKey)
             IN  [S |-> res.S, acct |-> res.acct, err |-> res.err,
                  resp |-> NoResponse, via |-> "session"]

AuthenticateRequest(S, p, r, req, setOk) ==
    LET slug == HeaderGet(req, HeadersAt("account"))
        username == HeaderGet(req, HeadersAt("slug"))
        sessionKey == sessionKeyFromRequest(req)
    IN  IF ~S.mockAccount[p].nil
        THEN [S |-> S, acct |-> S.mockAccount[p], err |-> NoErr,
              resp |-> NoResponse, via |-> "mock"]
        ELSE IF slug # ""
        THEN Answer(authenticateAccount(S, p, r, slug, HeaderGet(req, HeadersAt("key")), setOk),
                    req, p, r, "account")
        ELSE IF username # ""
        THEN Answer(authenticateAccountByUser(S, p, r, username,
                        HeaderGet(req, HeadersAt("password")), setOk),
                    req, p, r, "user")
        ELSE IF sessionKey = ""
        THEN [S |-> S, acct |-> NilAccount, err |-> Unauthenticated,
              resp |-> NoResponse, via |-> "none"]
        ELSE LET res == authenticateSession(S, p, r, sessionKey)
             IN  [S |-> res.S, acct |-> res.acct, err |-> res.err,
                  resp |-> NoResponse, via |-> "session"]

ClearSession_localOnly(S, p, req, sessionKey) ==
    LET key == IF sessionKey = "" THEN sessionKeyFromRequest(req) ELSE sessionKey
    IN  IF key = ""
        THEN [S |-> S, ok |-> FALSE]
        ELSE IF key \in DOMAIN S.sessions[p]
        THEN [S |-> [S EXCEPT !.sessions[p] = MapDel(@, key),
                              !.sessionToAccount[p] = MapDel(@, S.sessions[p][key].id)],
              ok |-> TRUE]
        ELSE [S |-> S, ok |-> FALSE]

\* ClearSession(req, sessionKey)
ClearSession(S, p, req, sessionKey) ==
    LET key == IF sessionKey = "" THEN sessionKeyFromRequest(req) ELSE sessionKey
        S1 == [S EXCEPT !.memcache = MapDel(@, key)]
    IN  IF key = ""
        THEN [S |-> S, ok |-> FALSE]
        ELSE IF key \in DOMAIN S.sessions[p]
        THEN [S |-> [S1 EXCEPT !.sessions[p] = MapDel(@, key),
                               !.sessionToAccount[p] = MapDel(@, S.sessions[p][key].id)],
              ok |-> TRUE]
        ELSE [S |-> S1, ok |-> FALSE]

\* ---------------------------------------------------------- middleware
\* The request a middleware closure is serving: where it stands (idle,
\* about to run the wrapped value, about to clear, ended), the wrapped
\* value's type, what AuthenticateRequest returned, the response status and
\* body the closure wrote, and what the wrapped operation met: how often it
\* ran, whether the request's cache entry was there, what GetAccount gave
\* it, whether a mock was in force, how often the closure cleared the
\* entry, and whether the closure ended in a panic.
NoHandling ==
    [pc |-> "idle", fn |-> "", err |-> NoErr, acct |-> NilAccount,
     status |-> 0, body |-> "", invoked |-> 0, present |-> FALSE,
     seen |-> NilAccount, mocked |-> FALSE, cleared |-> 0, panicked |-> FALSE]

StatusUnauthorized == 401
StatusInternalServerError == 500

\* The types the switch of AuthenticatedFunc has a case for.
FuncTypes == {"AuthFunc", "http.HandlerFunc"}

Respond_alwaysUnauthorized(S, p, r, fn, req, setOk) ==
    LET res == AuthenticateRequest(S, p, r, req, setOk)
        h == [NoHandling EXCEPT !.fn = fn, !.err = res.err, !.acct = res.acct,
                                !.mocked = ~S.mockAccount[p].nil]
    IN  IF res.err = Panic
        THEN [res.S EXCEPT !.handling = [h EXCEPT !.pc = "ended", !.panicked = TRUE]]
        ELSE IF res.err # NoErr
        THEN [res.S EXCEPT !.handling =
                 [h EXCEPT !.pc = "ended", !.status = StatusUnauthorized]]
        ELSE [res.S EXCEPT !.handling = [h EXCEPT !.pc = "wrapped"]]

\* The closure up to the wrapped value: AuthenticateRequest, then the
\* status and body for a failure. A panic inside AuthenticateRequest
\* leaves the closure at once.
Responded(res, h) ==
    IF res.err = Panic
    THEN [res.S EXCEPT !.handling =
             [h EXCEPT !.err = res.err, !.acct = res.acct,
                       !.pc = "ended", !.panicked = TRUE]]
    ELSE IF res.err # NoErr
    THEN IF res.err = Unauthenticated
         THEN [res.S EXCEPT !.handling =
                  [h EXCEPT !.err = res.err, !.acct = res.acct,
                            !.pc = "ended", !.status = StatusUnauthorized]]
         ELSE [res.S EXCEPT !.handling =
                  [h EXCEPT !.err = res.err, !.acct = res.acct,
                            !.pc = "ended", !.status = StatusInternalServerError,
                            !.body = res.err]]
    ELSE [res.S EXCEPT !.handling =
             [h EXCEPT !.err = res.err, !.acct = res.acct, !.pc = "wrapped"]]

Respond(S, p, r, fn, req, setOk) ==
    Responded(AuthenticateRequest(S, p, r, req, setOk),
              [NoHandling EXCEPT !.fn = fn, !.mocked = ~S.mockAccount[p].nil])

AuthenticatedFunc(S, p, r, fn, req, setOk) == Respond(S, p, r, fn, req, setOk)

AuthenticatedHandler(S, p, r, req, setOk) ==
    Respond(S, p, r, "http.Handler", req, setOk)

Invoke_clearsFirst(S, p, r, outcome) ==
    LET S0 == ClearAuthenticatedRequest(S, p, r)
        h == [S.handling EXCEPT !.invoked = @ + 1,
                                !.present = r \in DOMAIN S0.authenticatedAccounts[p],
                                !.seen = GetAccount(S0, p, r).acct,
                                !.mocked = @ \/ ~S.mockAccount[p].nil,
                                !.cleared = @ + 1]
    IN  [S0 EXCEPT !.handling = [h EXCEPT !.pc = "ended"]]

\* The wrapped value is run: the type switch of AuthenticatedFunc panics
\* for a value of another type; the wrapped operation returns or panics,
\* and a panic leaves the closure.
Invoke(S, p, r, outcome) ==
    LET h == [S.handling EXCEPT !.invoked = @ + 1,
                                !.present = r \in DOMAIN S.authenticatedAccounts[p],
                                !.seen = GetAccount(S, p, r).acct,
                                !.mocked = @ \/ ~S.mockAccount[p].nil]
    IN  IF S.handling.fn \notin FuncTypes \cup {"http.Handler"}
        THEN [S EXCEPT !.handling = [@ EXCEPT !.pc = "ended", !.panicked = TRUE]]
        ELSE IF outcome = "panics"
        THEN [S EXCEPT !.handling = [h EXCEPT !.pc = "ended", !.panicked = TRUE]]
        ELSE [S EXCEPT !.handling = [h EXCEPT !.pc = "clear"]]

\* The closure's last statement.
Leave(S, p, r) ==
    [ClearAuthenticatedRequest(S, p, r) EXCEPT
        !.handling = [@ EXCEPT !.pc = "ended", !.cleared = @ + 1]]

\* ------------------------------------------------------------- slugs
\* Strings that are worked on rune by rune are sequences of runes. The
\* runes of the model: letters in both cases, a digit, the space and the
\* tab, the underscore, the hyphen, and a punctuation mark.
UpperLetters == {"A"}
LowerLetters == {"a", "b"}
Digits == {"7"}
WhiteSpace == {" ", "\t"}
Runes == UpperLetters \cup LowerLetters \cup Digits \cup WhiteSpace \cup {"_", "-", "!"}

\* unicode.ToLower on one rune.
ToLowerRune(c) == IF c = "A" THEN "a" ELSE c

\* strings.ToLower
ToLower(str) == [i \in 1..Len(str) |-> ToLowerRune(str[i])]

RECURSIVE TrimLeft(_)
TrimLeft(str) ==
    IF str # <<>> /\ str[1] \in WhiteSpace THEN TrimLeft(Tail(str)) ELSE str

RECURSIVE TrimRight(_)
TrimRight(str) ==
    IF str # <<>> /\ str[Len(str)] \in WhiteSpace
    THEN TrimRight(SubSeq(str, 1, Len(str) - 1))
    ELSE str

\* strings.TrimSpace
TrimSpace(str) == TrimRight(TrimLeft(str))

\* The mapping function GenerateSlug hands to strings.Map: <<>> for a rune
\* that is dropped (the function returns -1).
SlugRune(c) ==
    IF c = " " \/ c = "-" THEN <<"-">>
    ELSE IF c = "_" \/ c \in UpperLetters \cup LowerLetters \/ c \in Digits THEN <<c>>
    ELSE <<>>

RECURSIVE StringsMap(_)
\* strings.Map with SlugRune.
StringsMap(str) ==
    IF str = <<>> THEN <<>> ELSE SlugRune(str[1]) \o StringsMap(Tail(str))

GenerateSlug_noToLower(str) ==
    StringsMap(TrimSpace(str))

\* GenerateSlug(s)
GenerateSlug(str) ==
    StringsMap(ToLower(TrimSpace(str)))

\* ---------------------------------------------------- inputs of the model
EmptyMap == [x \in {} |-> 0]

Slugs == {"acme", "open", "nobody"}
ApiKeys == {"", "k1", "bad"}
Origins == {"", ValidOrigin, BadOrigin}
MockedAccount == Account("mock", "mk", NilKey)

\* The slug and key pairs the functions are called with: the right key, a
\* wrong key, no key, an account without a key, a slug nobody has.
Credentials ==
    {<<"acme", "k1">>, <<"acme", "bad">>, <<"acme", "">>, <<"open", "">>,
     <<"nobody", "k1">>}

\* The pairs for an account that has an API key.
KeyedCredentials == {c \in Credentials : c[1] # "open"}

\* The (process, request id) pairs being served.
Serving == {<<1, "r1">>, <<2, "r2">>}

\* Every token handed out so far, and one that never was.
Tokens == {heap[i].Key : i \in 1..Len(heap)} \cup {"bogus"}

\* Requests with the given account slugs, API keys and username/password
\* pairs, and every combination of session header, cookie and Origin.
RequestsWith(slugs, keys, users) ==
    {Request(a, k, up[1], up[2], sh, ck, o) :
        a \in slugs, k \in keys, up \in users,
        sh \in {""} \cup Tokens,
        ck \in {NoCookie, Cookie("")} \cup {Cookie(t) : t \in Tokens},
        o \in Origins}

UserHeaders == {<<"", "">>, <<"bob", "pw">>}

Requests == RequestsWith(Slugs \cup {""}, ApiKeys, UserHeaders)

\* The requests the handler is driven with: one for each way a request can
\* be resolved (Requests is what the properties range over).
DrivenRequests ==
    {Request("acme", "k1", "", "", "", NoCookie, o) : o \in Origins}
    \cup {Request(a, "", "bob", "pw", t, NoCookie, "") :
             a \in Slugs, t \in Tokens}
    \cup {Request("", "", "bob", "pw", t, NoCookie, "") : t \in {""} \cup Tokens}
    \cup {Request("", "", "", "", "", Cookie(t), ValidOrigin) : t \in {""} \cup Tokens}
    \cup {Request("", "", "", "", t, Cookie("bogus"), "") : t \in Tokens}
    \cup {NoRequest}

\* ------------------------------------------------------------- saving
\* At most MaxSaved entities are added to a kind by Save.
MaxSaved == 2

\* The kinds of struct the model saves; anything else is not a struct.
Kinds == {"Account", "DummyObject"}
NotAStruct == "Must pass a valid object (struct) to aeutils.Save"
PutFailed == "datastore: put failed"

\* The numeric ids the datastore hands out.
IdLimit == MaxSaved + Cardinality(Procs) + 1

\* datastore.NewKey(ctx, kind, "", id, nil) and datastore.NewIncompleteKey;
\* NewKey with neither a name nor an id is the incomplete key.
IdKey(kind, id) == kind \o ":#" \o ToString(id)
IncompleteKey(kind) == kind \o ":"
Incomplete(key) == \E kind \in Kinds : key = IncompleteKey(kind)

\* key.IntID(): 0 for a key with a name.
IntID(key) ==
    LET ids == {n \in 1..IdLimit : \E kind \in Kinds : key = IdKey(kind, n)}
    IN  IF ids = {} THEN 0 ELSE CHOOSE n \in ids : TRUE

\* The stored entities of a kind.
Entities(S, kind) ==
    IF kind = "Account" THEN S.dsAccounts
    ELSE IF kind = "DummyObject" THEN S.dsDummy
    ELSE EmptyMap

WithEntities(S, kind, m) ==
    IF kind = "Account" THEN [S EXCEPT !.dsAccounts = m] ELSE [S EXCEPT !.dsDummy = m]

\* The properties datastore.Put stores for an object.
Entity(kind, obj) ==
    IF kind = "Account" THEN [Slug |-> obj.Slug, ApiKey |-> obj.ApiKey]
    ELSE [Slug |-> obj.Slug, ID |-> obj.ID]

\* An int64 field named ID (Account.ID is a string).
HasIntID(kind) == kind = "DummyObject"

\* The ids of a kind that are in use: those of stored entities and those
\* already allocated to an object a process is saving.
UsedIds(S, kind) ==
    {n \in 1..IdLimit :
        \/ IdKey(kind, n) \in DOMAIN Entities(S, kind)
        \/ \E p \in Procs :
              /\ S.saving[p].pc # "idle"
              /\ S.saving[p].kind = kind
              /\ \/ S.saving[p].key = IdKey(kind, n)
                 \/ S.saving[p].obj.Key = IdKey(kind, n)
                 \/ HasIntID(kind) /\ S.saving[p].obj.ID = n}

\* The id datastore.AllocateIDs or a put under an incomplete key yields.
NewId(S, kind) ==
    CHOOSE n \in 1..IdLimit :
        n \notin UsedIds(S, kind) /\ \A m \in 1..(n - 1) : m \in UsedIds(S, kind)

RECURSIVE Str(_)
\* The string made of a sequence of runes.
Str(runes) == IF runes = <<>> THEN "" ELSE runes[1] \o Str(Tail(runes))

\* datastore.NewQuery(kind).Filter("Slug = ", slug).Count(ctx)
CountSlug(S, kind, slug) ==
    Cardinality({k \in DOMAIN Entities(S, kind) : Entities(S, kind)[k].Slug = slug})

\* fmt.Sprintf("%v-%d", baseSlug, counter)
Suffixed(baseSlug, counter) == baseSlug \o "-" \o ToString(counter)

RECURSIVE Probe(_, _, _, _, _)
\* The loop of GenerateUniqueSlug, entered after a collision: its query for
\* counter is the counter-th query of the call, and query failAt fails.
Probe(S, kind, baseSlug, counter, failAt) ==
    IF failAt = counter THEN ""
    ELSE IF CountSlug(S, kind, Suffixed(baseSlug, counter)) > 0
    THEN Probe(S, kind, baseSlug, counter + 1, failAt)
    ELSE Suffixed(baseSlug, counter)

GenerateUniqueSlug_fromThree(S, kind, s, failAt) ==
    IF failAt = 1 THEN ""
    ELSE IF CountSlug(S, kind, Str(GenerateSlug(s))) = 0 THEN Str(GenerateSlug(s))
    ELSE Probe(S, kind, Str(GenerateSlug(s)), 3, failAt)

\* GenerateUniqueSlug(ctx, kind, s); failAt is the count query that returns
\* an error, 0 when none does.
GenerateUniqueSlug(S, kind, s, failAt) ==
    IF failAt = 1 THEN ""
    ELSE IF CountSlug(S, kind, Str(GenerateSlug(s))) = 0 THEN Str(GenerateSlug(s))
    ELSE Probe(S, kind, Str(GenerateSlug(s)), 2, failAt)

\* What the environment does during one Save: the count query that fails,
\* the uuid drawn, whether AllocateIDs and Put succeed.
Env(failAt, uuid, allocOk, putOk) ==
    [failAt |-> failAt, uuid |-> uuid, allocOk |-> allocOk, putOk |-> putOk]

\* An Account as a handler builds it before Save: with its display name.
NamedAccount(name, slug, apiKey, key) ==
    [nil |-> FALSE, Name |-> name, Slug |-> slug, ApiKey |-> apiKey, Key |-> key]

DummyObject(key, id, slug) ==
    [Key |-> key, ID |-> id, Slug |-> slug, BeforeSaveCalled |-> FALSE,
     AfterSaveCalled |-> FALSE]

\* fmt.Sprintf("Account-%v", rand.Int())
RandomName == <<"A", "-", "7">>

\* fmt.Sprintf("%x", md5(uuid)): the digest is kept symbolic.
ApiKeyOf(uuid) == "md5(" \o uuid \o ")"

\* Account.BeforeSave
AccountBeforeSave(S, acct, env) ==
    LET named == IF acct.Name = <<>> THEN [acct EXCEPT !.Name = RandomName] ELSE acct
        slugged == IF named.Slug = ""
                   THEN [named EXCEPT
                           !.Slug = GenerateUniqueSlug(S, "Account", named.Name, env.failAt),
                           !.ApiKey = ApiKeyOf(env.uuid)]
                   ELSE named
    IN  IF slugged.Key = NilKey THEN GetKey(slugged) ELSE slugged

\* preSave: the BeforeSave method of the object, when it has one.
BeforeSave(S, kind, obj, env) ==
    IF kind = "Account" THEN AccountBeforeSave(S, obj, env)
    ELSE IF kind = "DummyObject" THEN [obj EXCEPT !.BeforeSaveCalled = TRUE]
    ELSE obj

\* The AfterSave method of the object, when it has one.
HasAfterSave(kind) == kind = "DummyObject"
AfterSave(kind, obj) ==
    IF HasAfterSave(kind) THEN [obj EXCEPT !.AfterSaveCalled = TRUE] ELSE obj

\* Save up to the put: the hook, then the key from the Key field, from the
\* ID field, or from AllocateIDs. steps lists what was done, in order.
preSavePhase(S, kind, obj, env) ==
    LET o == BeforeSave(S, kind, obj, env)
        newId == NewId(S, kind)
        began == [obj |-> o, key |-> NilKey, err |-> NoErr, steps |-> <<"BeforeSave">>]
    IN  IF kind \notin Kinds
        THEN [obj |-> obj, key |-> NilKey, err |-> NotAStruct, steps |-> <<>>]
        ELSE IF o.Key # NilKey
        THEN [began EXCEPT !.key = o.Key]
        ELSE IF HasIntID(kind) /\ o.ID # 0
        THEN [began EXCEPT !.key = IdKey(kind, o.ID)]
        ELSE IF env.allocOk
        THEN [began EXCEPT
                !.obj = IF HasIntID(kind) THEN [o EXCEPT !.ID = newId] ELSE o,
                !.key = IdKey(kind, newId),
                !.steps = @ \o <<"AllocateIDs">>]
        ELSE [began EXCEPT !.key = IncompleteKey(kind), !.steps = @ \o <<"AllocateIDs">>]

putPhase_afterSaveAlways(S, kind, pre, putOk) ==
    IF pre.err # NoErr
    THEN [S |-> S, obj |-> pre.obj, key |-> NilKey, err |-> pre.err,
          steps |-> pre.steps, existed |-> FALSE]
    ELSE LET key == IF Incomplete(pre.key) THEN IdKey(kind, NewId(S, kind)) ELSE pre.key
             keyed == [pre.obj EXCEPT !.Key = key]
             numbered == IF HasIntID(kind) THEN [keyed EXCEPT !.ID = IntID(key)] ELSE keyed
         IN  [S |-> WithEntities(S, kind, MapPut(Entities(S, kind), key, Entity(kind, pre.obj))),
              obj |-> AfterSave(kind, numbered),
              key |-> key, err |-> IF putOk THEN NoErr ELSE PutFailed,
              steps |-> pre.steps \o <<"Put", "SetKey">>
                          \o (IF HasIntID(kind) THEN <<"SetID">> ELSE <<>>)
                          \o (IF HasAfterSave(kind) THEN <<"AfterSave">> ELSE <<>>),
              existed |-> key \in DOMAIN Entities(S, kind)]

\* Save from the put on: datastore.Put, and after a put that succeeded the
\* Key field, the ID field and the AfterSave hook. existed tells whether an
\* entity was stored under the key before.
putPhase(S, kind, pre, putOk) ==
    IF pre.err # NoErr
    THEN [S |-> S, obj |-> pre.obj, key |-> NilKey, err |-> pre.err,
          steps |-> pre.steps, existed |-> FALSE]
    ELSE IF ~putOk
    THEN [S |-> S, obj |-> pre.obj, key |-> NilKey, err |-> PutFailed,
          steps |-> pre.steps \o <<"Put">>, existed |-> FALSE]
    ELSE LET key == IF Incomplete(pre.key) THEN IdKey(kind, NewId(S, kind)) ELSE pre.key
             keyed == [pre.obj EXCEPT !.Key = key]
             numbered == IF HasIntID(kind) THEN [keyed EXCEPT !.ID = IntID(key)] ELSE keyed
         IN  [S |-> WithEntities(S, kind, MapPut(Entities(S, kind), key, Entity(kind, pre.obj))),
              obj |-> AfterSave(kind, numbered),
              key |-> key, err |-> NoErr,
              steps |-> pre.steps \o <<"Put", "SetKey">>
                          \o (IF HasIntID(kind) THEN <<"SetID">> ELSE <<>>)
                          \o (IF HasAfterSave(kind) THEN <<"AfterSave">> ELSE <<>>),
              existed |-> key \in DOMAIN Entities(S, kind)]

\* aeutils.Save(ctx, obj) for a pointer to an object of the kind.
Save(S, kind, obj, env) ==
    putPhase(S, kind, preSavePhase(S, kind, obj, env), env.putOk)

\* A Save in a process: between the hook and the put (pc "put"), or over
\* (pc "done"), with the object the caller holds, whether the caller gave
\* it without a key, and what Save returned.
Saving(pc, kind, given, fresh, res, existed) ==
    [pc |-> pc, kind |-> kind, given |-> given, fresh |-> fresh,
     obj |-> res.obj, key |-> res.key, err |-> res.err, steps |-> res.steps,
     existed |-> existed]

\* The object a process holds after its latest Save of the kind.
Held(S, p, kind) ==
    IF S.saving[p].pc = "done" /\ S.saving[p].kind = kind /\ S.saving[p].err = NoErr
    THEN {S.saving[p].obj}
    ELSE {}

\* The number of stored entities Save can write.
StoredCount(S) == Cardinality(DOMAIN S.dsAccounts) + Cardinality(DOMAIN S.dsDummy)

\* ------------------------------------------------------------- history
\* The call made by the latest step: the process it ran in, the slug or
\* token it was about, how it ended, and for AuthenticateRequest the
\* credential path taken and where the session token came from.
Call(op, p, key, err, ok, via, from) ==
    [op |-> op, p |-> p, key |-> key, err |-> err, ok |-> ok, via |-> via,
     from |-> from]

\* Where sessionKeyFromRequest finds the token of a request.
TokenSource(req) ==
    IF HeaderGet(req, "X-session") # "" THEN "header"
    ELSE IF req.cookie.present THEN "cookie" ELSE ""

\* ---------------------------------------------------------------- Init
\* bob's password as it was encrypted with the configured key.
StoredPassword == encrypt(ConfiguredKey, ToBytes("pw"), Iv(1)).out

\* An account made by BeforeSave: a generated slug and API key.
StoredAcme == AccountKey("acme") :> [Slug |-> "acme", ApiKey |-> "k1"]
\* An account saved with a slug of its own: BeforeSave gives it no API key.
StoredOpen == AccountKey("open") :> [Slug |-> "open", ApiKey |-> ""]

\* No Save is under way in a process.
NoSaving == [pc |-> "idle"]

\* A call of authenticateSession by a request of process 1, statement by
\* statement: where it stands (pc), its argument, the session and account
\* it found, its clock reading (at), and what it returned. For the record:
\* lastUsed as the call found it (seen), whether another call was under way
\* on the same session object (raced), and whether this call was the last
\* to assign lastUsed on it (wrote).
Validation(pc, key, session, acct, at, seen, err, raced, wrote) ==
    [pc |-> pc, key |-> key, session |-> session, acct |-> acct, at |-> at,
     seen |-> seen, err |-> err, raced |-> raced, wrote |-> wrote]
NoValidation == Validation("idle", "", NilSession, NilAccount, 0, 0, NoErr, FALSE, FALSE)
\* What the latest call of the cipher returned: the function, the process,
\* its argument, the initialization vector drawn, the bytes and error
\* returned, and for a decryption the plaintext its argument was made from.
Returned(op, p, arg, iv, out, err, src) ==
    [op |-> op, p |-> p, arg |-> arg, iv |-> iv, out |-> out, err |-> err,
     src |-> src]
NoResult == Returned("", 0, <<>>, <<>>, <<>>, NoErr, <<>>)

\* A running deployment whose processes hold the given encryption keys.
Deployed(keys) ==
    /\ now = 0
    /\ mockAccount = [p \in Procs |-> NilAccount]
    /\ dsAccounts = StoredAcme @@ StoredOpen
    /\ dsUsers = (UserKey("bob") :>
                    [Username |-> "bob", EncryptedPassword |-> StoredPassword,
                     AccountKey |-> AccountKey("acme"), LastLogin |-> 0])
    /\ memcache = EmptyMap
    /\ heap = <<>>
    /\ sessions = [p \in Procs |-> EmptyMap]
    /\ sessionToAccount = [p \in Procs |-> EmptyMap]
    /\ sessionToUser = [p \in Procs |-> EmptyMap]
    /\ authenticatedAccounts = [p \in Procs |-> EmptyMap]
    /\ authenticatedSessions = [p \in Procs |-> EmptyMap]
    /\ authenticatedUsers = [p \in Procs |-> EmptyMap]
    /\ handling = NoHandling
    /\ encryptionKey = keys
    /\ dsDummy = EmptyMap
    /\ saving = [p \in Procs |-> NoSaving]
    /\ validating = [r \in ReqIds |-> NoValidation]
    /\ last = Call("init", 0, "", NoErr, FALSE, "", "")

\* The deployment at work: every process has configured its key.
Init == Deployed([p \in Procs |-> ConfiguredKey]) /\ result = NoResult

\* The deployment with processes that have not called SetEncryptionKey.
InitUnkeyed == Deployed([p \in Procs |-> NoKey]) /\ result = NoResult

\* Byte strings of at most MaxLen bytes, and the blocks of the cipher.
Payloads == UNION {[1..n -> Bytes] : n \in 0..MaxLen}
Blocks == [1..BlockSize -> Bytes]

\* A process with its key configured is about to encrypt a payload, and
\* rand.Reader is about to deliver an initialization vector.
InitCipher ==
    /\ Deployed([p \in Procs |-> ConfiguredKey])
    /\ result \in {Returned("input", 1, plaintext, iv, <<>>, NoErr, <<>>) :
                      plaintext \in Payloads, iv \in Blocks}

\* -------------------------------------------------------------- actions
\* time passes
Tick ==
    /\ now < MaxTime
    /\ Commit([St EXCEPT !.now = now + 1])
    /\ last' = Call("Tick", 0, "", NoErr, FALSE, "", "")

\* MockAccount(acct)
DoMockAccount(p, acct) ==
    /\ Commit(MockAccount(St, p, acct))
    /\ last' = Call("MockAccount", p, acct.Slug, NoErr, FALSE, "", "")

\* An Account entity is removed from the datastore (outside this package).
DatastoreDelete(k) ==
    /\ k \in DOMAIN dsAccounts
    /\ Commit([St EXCEPT !.dsAccounts = MapDel(@, k)])
    /\ last' = Call("DatastoreDelete", 0, k, NoErr, FALSE, "", "")

\* A call that may create a session ends with the result res.
Ended(op, p, key, res, via, from) ==
    /\ Len(res.S.heap) <= MaxObjs
    /\ Commit(res.S)
    /\ last' = Call(op, p, key, res.err, FALSE, via, from)

\* AuthenticateRequest ends with the result res.
EndedRequest(p, req, res) ==
    Ended("AuthenticateRequest", p,
          IF res.via = "account" THEN HeaderGet(req, "X-account")
          ELSE sessionKeyFromRequest(req),
          res, res.via, TokenSource(req))

DoAuthenticateRequest(p, r, req, setOk) ==
    EndedRequest(p, req, AuthenticateRequest(St, p, r, req, setOk))

DoAuthenticateAccount(p, r, slug, apiKey, setOk) ==
    Ended("authenticateAccount", p, slug,
          authenticateAccount(St, p, r, slug, apiKey, setOk), "", "")

DoAuthenticateAccountByUser(p, r, username, password, setOk) ==
    Ended("authenticateAccountByUser", p, username,
          authenticateAccountByUser(St, p, r, username, password, setOk), "", "")

DoAuthenticateSession(p, r, sessionKey) ==
    Ended("authenticateSession", p, sessionKey,
          authenticateSession(St, p, r, sessionKey), "", "")

\* ClearSession ends with the result res.
Cleared(p, key, res) ==
    /\ Commit(res.S)
    /\ last' = Call("ClearSession", p, key, NoErr, res.ok, "", "")

DoClearSession(p, req, sessionKey) ==
    Cleared(p, IF sessionKey = "" THEN sessionKeyFromRequest(req) ELSE sessionKey,
            ClearSession(St, p, req, sessionKey))

DoClearAuthenticatedRequest(p, r) ==
    /\ Commit(ClearAuthenticatedRequest(St, p, r))
    /\ last' = Call("ClearAuthenticatedRequest", p, "", NoErr, FALSE, "", "")

DoSetEncryptionKey(p, key) ==
    LET res == SetEncryptionKey(St, p, key)
    IN  /\ Commit([res.S EXCEPT !.result =
                      Returned("SetEncryptionKey", p, key, <<>>, <<>>, res.err, <<>>)])
        /\ last' = Call("SetEncryptionKey", p, "", res.err, FALSE, "", "")

DoEncrypt(p, plaintext, iv) ==
    LET res == encrypt(encryptionKey[p], plaintext, iv)
    IN  /\ Commit([St EXCEPT !.result =
                      Returned("encrypt", p, plaintext, iv, res.out, res.err, <<>>)])
        /\ last' = Call("encrypt", p, "", res.err, FALSE, "", "")

\* decrypt is given the ciphertext the latest encrypt returned.
DoDecrypt(p) ==
    LET res == decrypt(encryptionKey[p], result.out)
    IN  /\ result.op = "encrypt"
        /\ result.err = NoErr
        /\ Commit([St EXCEPT !.result =
                      Returned("decrypt", p, result.out, result.iv, res.out, res.err,
                               result.arg)])
        /\ last' = Call("decrypt", p, "", res.err, FALSE, "", "")

\* The ways ClearSession is given a token: as its argument, in the session
\* header, or in the cookie.
ClearRequests(t) ==
    {<<NoRequest, t>>, <<Request("", "", "", "", t, NoCookie, ""), "">>,
     <<Request("", "", "", "", "", Cookie(t), ""), "">>}

\* Sessions over time: created by authenticateAccount and validated by
\* authenticateSession in two processes that share the datastore and
\* memcache, while the clock advances.
Next ==
    \/ Tick
    \/ \E s \in Serving, c \in KeyedCredentials, setOk \in BOOLEAN :
          DoAuthenticateAccount(s[1], s[2], c[1], c[2], setOk)
    \/ \E s \in Serving, t \in Tokens : DoAuthenticateSession(s[1], s[2], t)

Spec == Init /\ [][Next]_vars

\* Sessions and the stores behind them at one clock reading: accounts are
\* deleted, sessions are cleared, requests end.
NextStore ==
    \/ \E k \in DOMAIN dsAccounts : DatastoreDelete(k)
    \/ \E s \in Serving, c \in Credentials, setOk \in BOOLEAN :
          DoAuthenticateAccount(s[1], s[2], c[1], c[2], setOk)
    \/ \E s \in Serving, t \in Tokens : DoAuthenticateSession(s[1], s[2], t)
    \/ \E p \in Procs, t \in Tokens \cup {""} :
          \E c \in ClearRequests(t) : DoClearSession(p, c[1], c[2])
    \/ \E s \in Serving : DoClearAuthenticatedRequest(s[1], s[2])

SpecStore == Init /\ [][NextStore]_vars

\* Requests handled by AuthenticateRequest in one process at one clock
\* reading, with the mock override being set and cleared.
NextRequest ==
    \/ \E acct \in {NilAccount, MockedAccount} : DoMockAccount(1, acct)
    \/ \E req \in DrivenRequests, setOk \in BOOLEAN :
          DoAuthenticateRequest(1, "r1", req, setOk)
    \/ \E t \in Tokens : DoClearSession(1, NoRequest, t)
    \/ DoClearAuthenticatedRequest(1, "r1")

SpecRequest == Init /\ [][NextRequest]_vars

\* Requests handled by AuthenticateRequest in one process while the mock
\* override is set and cleared and the request's identity is dropped.
NextMock ==
    \/ \E acct \in {NilAccount, MockedAccount} : DoMockAccount(1, acct)
    \/ \E req \in DrivenRequests, setOk \in BOOLEAN :
          DoAuthenticateRequest(1, "r1", req, setOk)
    \/ DoClearAuthenticatedRequest(1, "r1")

SpecMock == Init /\ [][NextMock]_vars

\* Display names of at most MaxLen runes.
Names == UNION {[1..n -> Runes] : n \in 0..MaxLen}

\* GenerateSlug is about to be given a display name.
InitSlug ==
    /\ Deployed([p \in Procs |-> ConfiguredKey])
    /\ result \in {Returned("name", 0, name, <<>>, <<>>, NoErr, <<>>) : name \in Names}

\* GenerateSlug(arg); src is the name a slug given as argument came from.
DoGenerateSlug(arg, src) ==
    /\ Commit([St EXCEPT !.result =
                  Returned("GenerateSlug", 0, arg, <<>>, GenerateSlug(arg), NoErr, src)])
    /\ last' = Call("GenerateSlug", 0, "", NoErr, FALSE, "", "")

\* GenerateSlug on a display name, and then on the slug it returned.
NextSlug ==
    \/ result.op = "name" /\ DoGenerateSlug(result.arg, <<>>)
    \/ /\ result.op = "GenerateSlug"
       /\ result.src = <<>>
       /\ result.arg # <<>>
       /\ DoGenerateSlug(result.out, result.arg)

SpecSlug == InitSlug /\ [][NextSlug]_vars

\* The cipher at work on one payload: encrypt, then decrypt what it gave.
NextCipher ==
    \/ result.op = "input" /\ DoEncrypt(1, result.arg, result.iv)
    \/ DoDecrypt(1)

SpecCipher == InitCipher /\ [][NextCipher]_vars

\* A process ends its Save with what Save returned.
Saved(op, p, kind, given, fresh, res) ==
    /\ StoredCount(res.S) <= Cardinality(DOMAIN (StoredAcme @@ StoredOpen)) + MaxSaved
    /\ Commit([res.S EXCEPT
                 !.saving[p] = Saving("done", kind, given, fresh, res, res.existed)])
    /\ last' = Call(op, p, res.key, res.err, FALSE, "", "")

\* aeutils.Save(ctx, obj) run to its end in a process.
DoSave(p, kind, obj, fresh, env) ==
    /\ saving[p].pc # "put"
    /\ Saved("Save", p, kind, obj, fresh, Save(St, kind, obj, env))

\* A process has run its Save up to the datastore put.
Prepared(p, kind, given, pre) ==
    /\ Commit([St EXCEPT
                 !.saving[p] = Saving("put", kind, given, given.Key = NilKey, pre, FALSE)])
    /\ last' = Call("BeforeSave", p, pre.key, pre.err, FALSE, "", "")

\* Save in a process up to the datastore put.
DoBeforeSave(p, kind, obj, env) ==
    /\ saving[p].pc # "put"
    /\ Prepared(p, kind, obj, preSavePhase(St, kind, obj, env))

\* The put of the Save a process is in, and what follows it.
DoPut(p, putOk) ==
    /\ saving[p].pc = "put"
    /\ Saved("Put", p, saving[p].kind, saving[p].given, saving[p].fresh,
             putPhase(St, saving[p].kind,
                      [obj |-> saving[p].obj, key |-> saving[p].key,
                       err |-> saving[p].err, steps |-> saving[p].steps],
                      putOk))

\* The name objects are given slugs for.
SlugNames == {<<"A", "b">>}

\* Objects handed to Save with an id or a key of their own.
DummyInputs ==
    {DummyObject(NilKey, 1, "own"), DummyObject("DummyObject:own", 0, "own")}

\* One process saves objects the way the package's tests do: new objects
\* with a slug from GenerateUniqueSlug, whose first count query may fail,
\* objects with an id or key of their own, the object it saved last, and a
\* value that is not a struct.
NextSave ==
    \/ \E name \in SlugNames, failAt \in {0, 1}, allocOk, putOk \in BOOLEAN :
          DoSave(1, "DummyObject",
                 DummyObject(NilKey, 0, GenerateUniqueSlug(St, "DummyObject", name, failAt)),
                 TRUE, Env(failAt, "", allocOk, putOk))
    \/ \E obj \in DummyInputs \cup Held(St, 1, "DummyObject"), putOk \in BOOLEAN :
          DoSave(1, "DummyObject", obj, obj.Key = NilKey, Env(0, "", TRUE, putOk))
    \/ DoSave(1, "int", 0, FALSE, Env(0, "", TRUE, TRUE))

SpecSave == Init /\ [][NextSave]_vars

\* The uuids uuid.New() draws.
Uuids == {"u1", "u2"}

\* The accounts handed to Save: one made from a display name, one that
\* brings the slug of a stored account, one that brings an API key.
AccountInputs ==
    {NamedAccount(<<"A", "b">>, "", "", NilKey),
     NamedAccount(<<"A">>, "acme", "", NilKey),
     NamedAccount(<<"A", "b">>, "", "given", NilKey)}

\* Two processes save accounts: process 1 new ones and the one it holds,
\* process 2 new ones made from the same display name; between the hook
\* and the put of one Save the other process runs.
NextAccounts ==
    \/ \E failAt \in {0, 1}, uuid \in Uuids :
          \E acct \in AccountInputs \cup Held(St, 1, "Account") :
              DoBeforeSave(1, "Account", acct, Env(failAt, uuid, TRUE, TRUE))
    \/ \E uuid \in Uuids :
          DoBeforeSave(2, "Account", NamedAccount(<<"A", "b">>, "", "", NilKey),
                       Env(0, uuid, TRUE, TRUE))
    \/ \E p \in Procs, putOk \in BOOLEAN : DoPut(p, putOk)

SpecAccounts == Init /\ [][NextAccounts]_vars

\* The username and password pairs the functions are called with.
Logins == {<<"bob", "pw">>, <<"bob", "wrong">>, <<"eve", "pw">>}

\* What SetEncryptionKey is called with: nothing, a key of a size AES
\* rejects, the deployment's key.
GivenKeys == {NoKey, <<1>>, ConfiguredKey}

\* A new user, as a sign-up handler hands it to aeutils.Save.
NewUser(username, password) ==
    [nil |-> FALSE, Username |-> username, Password |-> password,
     EncryptedPassword |-> <<>>, AccountKey |-> NilKey, LastLogin |-> 0,
     Key |-> NilKey]

\* Processes that start without a key: they configure one or not, encrypt
\* and decrypt, and authenticate users.
NextUnkeyed ==
    \/ \E p \in Procs, key \in GivenKeys : DoSetEncryptionKey(p, key)
    \/ \E p \in Procs, l \in Logins : DoEncrypt(p, ToBytes(l[2]), Iv(1))
    \/ \E p \in Procs : DoDecrypt(p)
    \/ \E s \in Serving, l \in Logins :
          DoAuthenticateAccountByUser(s[1], s[2], l[1], l[2], TRUE)

SpecUnkeyed == InitUnkeyed /\ [][NextUnkeyed]_vars

\* The request identity cache of one process that serves two requests,
\* authenticated by account, by user or by session, with the mock override
\* being set and cleared.
NextCache ==
    \/ \E acct \in {NilAccount, MockedAccount} : DoMockAccount(1, acct)
    \/ \E r \in ReqIds, c \in Credentials, setOk \in BOOLEAN :
          DoAuthenticateAccount(1, r, c[1], c[2], setOk)
    \/ \E r \in ReqIds, l \in Logins, setOk \in BOOLEAN :
          DoAuthenticateAccountByUser(1, r, l[1], l[2], setOk)
    \/ \E r \in ReqIds, t \in Tokens : DoAuthenticateSession(1, r, t)
    \/ \E r \in ReqIds : DoClearAuthenticatedRequest(1, r)

SpecCache == Init /\ [][NextCache]_vars

\* A middleware closure starts serving request r1 of process 1 and runs up
\* to the wrapped value, leaving the state S.
Enter(S, op, req) ==
    /\ handling.pc = "idle"
    /\ Len(S.heap) <= MaxObjs
    /\ Commit(S)
    /\ last' = Call(op, 1, sessionKeyFromRequest(req),
                    S.handling.err, FALSE, "", TokenSource(req))

DoAuthenticatedFunc(fn, req, setOk) ==
    Enter(AuthenticatedFunc(St, 1, "r1", fn, req, setOk), "AuthenticatedFunc", req)

DoAuthenticatedHandler(req, setOk) ==
    Enter(AuthenticatedHandler(St, 1, "r1", req, setOk), "AuthenticatedHandler", req)

DoInvoke(outcome) ==
    /\ handling.pc = "wrapped"
    /\ Commit(Invoke(St, 1, "r1", outcome))
    /\ last' = Call("wrapped", 1, outcome, NoErr, FALSE, "", "")

DoLeave ==
    /\ handling.pc = "clear"
    /\ Commit(Leave(St, 1, "r1"))
    /\ last' = Call("ClearAuthenticatedRequest", 1, "", NoErr, FALSE, "", "")

\* The request is over; the next one the process serves gets the same id.
NextRequestArrives ==
    /\ handling.pc = "ended"
    /\ Commit([St EXCEPT !.handling = NoHandling])
    /\ last' = Call("request", 1, "", NoErr, FALSE, "", "")

\* The requests the middleware is driven with.
MiddlewareRequests ==
    {Request("acme", k, "", "", "", NoCookie, o) : k \in {"k1", "bad"}, o \in {"", BadOrigin}}
    \cup {Request("nobody", "k1", "", "", "", NoCookie, "")}
    \cup {Request("", "", "", "", t, NoCookie, "") : t \in {""} \cup Tokens}

\* Requests served one after the other through AuthenticatedFunc and
\* AuthenticatedHandler in one process, with the mock override being set
\* and cleared.
NextMiddleware ==
    \/ \E acct \in {NilAccount, MockedAccount} : DoMockAccount(1, acct)
    \/ \E fn \in FuncTypes \cup {"func"}, req \in MiddlewareRequests, setOk \in BOOLEAN :
          DoAuthenticatedFunc(fn, req, setOk)
    \/ \E req \in MiddlewareRequests, setOk \in BOOLEAN : DoAuthenticatedHandler(req, setOk)
    \/ \E outcome \in {"returns", "panics"} : DoInvoke(outcome)
    \/ DoLeave
    \/ NextRequestArrives

SpecMiddleware == Init /\ [][NextMiddleware]_vars

\* Sessions created for accounts and for users in one process while the
\* clock advances.
NextCreate ==
    \/ Tick
    \/ \E c \in Credentials, setOk \in BOOLEAN :
          DoAuthenticateAccount(1, "r1", c[1], c[2], setOk)
    \/ \E l \in Logins, setOk \in BOOLEAN :
          DoAuthenticateAccountByUser(1, "r1", l[1], l[2], setOk)

SpecCreate == Init /\ [][NextCreate]_vars

\* ------------------------- authenticateSession, statement by statement
\* The calls under way on the session object that call r works on.
Beside(S, r, session) ==
    {q \in ReqIds \ {r} :
        /\ S.validating[q].pc \notin {"idle", "done"}
        /\ S.validating[q].session = session}

\* accounts.go:111-118: the session and its account are looked up.
Lookup(S, p, r, sessionKey) ==
    LET gs == getSession(S, p, sessionKey)
        ga == getAccountFromSession(S, p, gs.session)
        beside == Beside(S, r, gs.session)
    IN  IF gs.err # NoErr \/ ga.err # NoErr
        THEN [S EXCEPT !.validating[r] =
                 Validation("done", sessionKey, NilSession, NilAccount, 0, 0,
                            Unauthenticated, FALSE, FALSE)]
        ELSE [S EXCEPT !.validating =
                 [q \in ReqIds |->
                     IF q = r
                     THEN Validation("found", sessionKey, gs.session, ga.acct, 0,
                                     Deref(S, gs.session).LastUsed, NoErr,
                                     beside # {}, FALSE)
                     ELSE IF q \in beside THEN [@[q] EXCEPT !.raced = TRUE]
                     ELSE @[q]]]

\* accounts.go:119: now := time.Now()
ReadClock(S, r) == [S EXCEPT !.validating[r].at = S.now, !.validating[r].pc = "timed"]

\* accounts.go:120-122: the expiry test, on lastUsed as it is now.
CheckExpiry(S, r) ==
    LET call == S.validating[r]
        rec == Deref(S, call.session)
    IN  IF call.at > rec.LastUsed + rec.TTL
        THEN [S EXCEPT !.validating[r].pc = "done",
                       !.validating[r].session = NilSession,
                       !.validating[r].acct = NilAccount,
                       !.validating[r].err = SessionExpired]
        ELSE [S EXCEPT !.validating[r].pc = "fresh"]

\* The time the call assigns to lastUsed.
Stamp_clockAtAssignment(S, r) == S.now

Stamp(S, r) == S.validating[r].at

\* accounts.go:123: session.LastUsed = now, through the pointer.
SetLastUsed(S, r) ==
    LET call == S.validating[r]
        S1 == IF call.session.id > 0
              THEN [S EXCEPT !.heap[call.session.id].LastUsed = Stamp(S, r)]
              ELSE [S EXCEPT !.validating[r].session =
                       CopyPtr([call.session.val EXCEPT !.LastUsed = Stamp(S, r)])]
    IN  [S1 EXCEPT !.validating =
            [q \in ReqIds |->
                IF q = r THEN [@[q] EXCEPT !.pc = "touched", !.wrote = TRUE]
                ELSE IF @[q].session = call.session /\ call.session.id > 0
                THEN [@[q] EXCEPT !.wrote = FALSE]
                ELSE @[q]]]

\* accounts.go:124-125: the identity is cached and the call returns.
StoreIdentity(S, p, r) ==
    LET call == S.validating[r]
        S1 == storeAuthenticatedRequest(S, p, r, call.acct, call.session, NilUser)
    IN  [S1 EXCEPT !.validating[r].pc = "done"]

\* A statement of a call has led to S.
Stepped(S) ==
    /\ Commit(S)
    /\ last' = Call("statement", 1, "", NoErr, FALSE, "", "")

DoLookup(r, sessionKey) ==
    /\ validating[r].pc = "idle"
    /\ Stepped(Lookup(St, 1, r, sessionKey))

DoReadClock(r) ==
    /\ validating[r].pc = "found"
    /\ Stepped(ReadClock(St, r))

DoCheckExpiry(r) ==
    /\ validating[r].pc = "timed"
    /\ Stepped(CheckExpiry(St, r))

DoSetLastUsed(r) ==
    /\ validating[r].pc = "fresh"
    /\ Stepped(SetLastUsed(St, r))

DoStoreIdentity(r) ==
    /\ validating[r].pc = "touched"
    /\ Stepped(StoreIdentity(St, 1, r))

\* Two requests of process 1 create sessions and then validate one each,
\* the statements of the two calls interleaved, while the clock advances.
NextRace ==
    \/ Tick
    \/ \E r \in ReqIds :
          /\ validating[r].pc = "idle"
          /\ DoAuthenticateAccount(1, r, "acme", "k1", TRUE)
    \/ \E r \in ReqIds, t \in DOMAIN sessions[1] : DoLookup(r, t)
    \/ \E r \in ReqIds : DoReadClock(r)
    \/ \E r \in ReqIds : DoCheckExpiry(r)
    \/ \E r \in ReqIds : DoSetLastUsed(r)
    \/ \E r \in ReqIds : DoStoreIdentity(r)

SpecRace == Init /\ [][NextRace]_vars

\* Sessions of one account that the two processes create, with and without
\* the memcache write succeeding, and validate while the clock advances past
\* their expiry.
NextExpiry ==
    \/ Tick
    \/ \E s \in Serving, setOk \in BOOLEAN :
          DoAuthenticateAccount(s[1], s[2], "acme", "k1", setOk)
    \/ \E s \in Serving, t \in Tokens : DoAuthenticateSession(s[1], s[2], t)

SpecExpiry == Init /\ [][NextExpiry]_vars

\* Sessions of one account at one clock reading: the two processes create,
\* validate and clear them, and accounts are deleted.
NextLogout ==
    \/ \E k \in DOMAIN dsAccounts : DatastoreDelete(k)
    \/ \E s \in Serving, setOk \in BOOLEAN :
          DoAuthenticateAccount(s[1], s[2], "acme", "k1", setOk)
    \/ \E s \in Serving, t \in Tokens : DoAuthenticateSession(s[1], s[2], t)
    \/ \E p \in Procs, t \in Tokens \cup {""} :
          \E c \in ClearRequests(t) : DoClearSession(p, c[1], c[2])

SpecLogout == Init /\ [][NextLogout]_vars

\* ---------------------------------------------------------- properties
\* What is stored under a token as process p sees it: the session of its
\* own map, else the one in memcache.
Known(p, t) == t \in DOMAIN sessions[p] \/ t \in DOMAIN memcache

Stored(p, t) ==
    IF t \in DOMAIN sessions[p] THEN heap[sessions[p][t].id] ELSE memcache[t]

\* Whether process p can still name the account of the session under t:
\* from its reverse lookup, or by the session's account key in the datastore.
Resolvable(p, t) ==
    \/ /\ t \in DOMAIN sessions[p]
       /\ sessions[p][t].id \in DOMAIN sessionToAccount[p]
    \/ Stored(p, t).Account \in DOMAIN dsAccounts

\* The stored accounts that have a slug.
WithSlug(slug) == {k \in DOMAIN dsAccounts : dsAccounts[k].Slug = slug}

\* Whether url.Parse fails on the request's Origin header.
MalformedOrigin(req) == UrlParse(HeaderGet(req, "Origin")).err

\* C1 (as stated): whenever no mock is set and X-account is non-empty, the
\* outcome of AuthenticateRequest (error, account and every effect on the
\* stores) is exactly the outcome of authenticateAccount(slug, key),
\* whatever the other headers and the cookie are.
C1_OutcomeIsAuthenticateAccount ==
    \A req \in RequestsWith(Slugs, ApiKeys, UserHeaders), setOk \in BOOLEAN :
        LET res == AuthenticateRequest(St, 1, "r1", req, setOk)
            direct == authenticateAccount(St, 1, "r1", HeaderGet(req, "X-account"),
                                          HeaderGet(req, "X-key"), setOk)
        IN  mockAccount[1].nil =>
                /\ res.err = direct.err
                /\ res.acct = direct.acct
                /\ res.S = direct.S

\* C2 (as stated): a request with X-account but no X-key is resolved as the
\* same request without X-account is: by its session token, or not at all.
C2_FallsThroughWithoutKey ==
    \A req \in RequestsWith(Slugs, {""}, UserHeaders), setOk \in BOOLEAN :
        LET res == AuthenticateRequest(St, 1, "r1", req, setOk)
            rest == AuthenticateRequest(St, 1, "r1",
                        [req EXCEPT !.header["X-account"] = ""], setOk)
        IN  mockAccount[1].nil =>
                /\ res.err = rest.err
                /\ res.acct = rest.acct
                /\ res.S = rest.S

\* C2 (amended): X-account alone selects the slug + key path, with the
\* empty string as the key. Without a mock, a request with X-account and no
\* X-key fails with NoSuchAccount when no account has the slug and with
\* InvalidApiKey when the account has a key, both without any effect; when
\* the account's stored key is empty it is authenticated as that account
\* with a new session (the call panics after that when Origin does not
\* parse). A session token, username or password in the request changes
\* none of this.
C2_SlugAloneSelectsAccountPath ==
    \A req \in RequestsWith(Slugs, {""}, UserHeaders), setOk \in BOOLEAN :
        LET slug == HeaderGet(req, "X-account")
            res == AuthenticateRequest(St, 1, "r1", req, setOk)
            made == createSession(St, 1, "r1",
                        Account(slug, "", AccountKey(slug)), NilUser, setOk)
        IN  mockAccount[1].nil =>
                /\ WithSlug(slug) = {} =>
                      res.err = NoSuchAccount /\ res.acct.nil /\ res.S = St
                /\ \A k \in WithSlug(slug) :
                      IF dsAccounts[k].ApiKey # ""
                      THEN res.err = InvalidApiKey /\ res.acct.nil /\ res.S = St
                      ELSE /\ res.S = made.S
                           /\ IF MalformedOrigin(req)
                              THEN res.err = Panic
                              ELSE res.err = NoErr /\ res.acct = made.acct

\* C2 witness: a request with X-account: open and no X-key, carrying
\* username, password and a session token, was authenticated as account
\* open.
C2_Witness ==
    /\ last.op = "AuthenticateRequest"
    /\ last.via = "account"
    /\ last.key = "open"
    /\ last.from = "header"
    /\ last.err = NoErr
    /\ "r1" \in DOMAIN authenticatedAccounts[1]
    /\ authenticatedAccounts[1]["r1"].Slug = "open"

\* C3 (as stated): without a mock, a request with no X-account and with
\* X-username and X-password has the outcome of
\* authenticateAccountByUser(username, password).
C3_ResolvedByUser ==
    \A req \in RequestsWith({""}, ApiKeys, {<<"bob", "pw">>}), setOk \in BOOLEAN :
        LET res == AuthenticateRequest(St, 1, "r1", req, setOk)
            byUser == authenticateAccountByUser(St, 1, "r1",
                          HeaderGet(req, "X-username"),
                          HeaderGet(req, "X-password"), setOk)
        IN  mockAccount[1].nil /\ ~MalformedOrigin(req) =>
                /\ res.err = byUser.err
                /\ res.acct = byUser.acct
                /\ res.via = "user"

\* C4: without a mock and with none of X-account, X-username and
\* X-password, the session token is the X-session header when that is
\* non-empty and else the value of the X-session cookie; with no token the
\* call fails with Unauthenticated and changes nothing; with a token its
\* outcome is that of authenticateSession(token).
C4_TokenFromHeaderThenCookie ==
    \A req \in RequestsWith({""}, ApiKeys, {<<"", "">>}), setOk \in BOOLEAN :
        LET header == HeaderGet(req, "X-session")
            token == IF header # "" THEN header
                     ELSE IF req.cookie.present THEN req.cookie.value ELSE ""
            res == AuthenticateRequest(St, 1, "r1", req, setOk)
            bySession == authenticateSession(St, 1, "r1", token)
        IN  mockAccount[1].nil =>
                IF token = ""
                THEN res.err = Unauthenticated /\ res.acct.nil /\ res.S = St
                ELSE /\ res.err = bySession.err
                     /\ res.acct = bySession.acct
                     /\ res.S = bySession.S

\* C4 witness: a request whose only credential is the X-session cookie was
\* authenticated by the session that cookie names.
C4_Witness ==
    /\ last.op = "AuthenticateRequest"
    /\ last.via = "session"
    /\ last.from = "cookie"
    /\ last.err = NoErr
    /\ last.key \in DOMAIN sessions[1]

\* C5: for every slug and key, getAccountFromSlug gives NoSuchAccount and no
\* account when no stored account has the slug, InvalidApiKey and no
\* account when the stored account's key differs, and the stored account
\* without error when the keys are equal; and the authenticateAccount call
\* just made reported NoSuchAccount exactly for a slug nobody has.
C5_LookupBySlugAndKey ==
    /\ \A slug \in Slugs, apiKey \in ApiKeys :
          LET res == getAccountFromSlug(St, slug, apiKey)
          IN  /\ WithSlug(slug) = {} => res.err = NoSuchAccount /\ res.acct.nil
              /\ \A k \in WithSlug(slug) :
                    IF dsAccounts[k].ApiKey # apiKey
                    THEN res.err = InvalidApiKey /\ res.acct.nil
                    ELSE /\ res.err = NoErr
                         /\ res.acct = Account(slug, apiKey, k)
    /\ last.op = "authenticateAccount" =>
          /\ last.err \in {NoErr, InvalidApiKey, NoSuchAccount}
          /\ last.err = NoSuchAccount <=> WithSlug(last.key) = {}

\* C5 witness: authenticateAccount was called with the slug of a stored
\* account and a key that is not the account's.
C5_Witness ==
    /\ last.op = "authenticateAccount"
    /\ last.err = InvalidApiKey
    /\ WithSlug(last.key) # {}

\* The session authenticateAccount made validates at once: with the same
\* account and session, and without creating anything.
SameIdentity(made, session, again) ==
    /\ again.err = NoErr
    /\ again.acct = made.acct
    /\ again.session = session
    /\ again.S.heap = made.S.heap

ValidatedBy(s, made, session) ==
    SameIdentity(made, session,
                 authenticateSession(made.S, s[1], s[2], Deref(made.S, session).Key))

ValidatesAgain(s, made) ==
    made.err = NoErr => ValidatedBy(s, made, GetSession(made.S, s[1], s[2]).session)

\* C6: a successful authenticateAccount(slug, key) followed at once by
\* authenticateSession of the new session's token, in the same process,
\* succeeds with the same account and the same session, the record
\* unchanged; and a session of the process's own map whose lastUsed + ttl
\* lies before now fails with SessionExpired.
C6_EndToEnd ==
    /\ \A s \in Serving, c \in Credentials, setOk \in BOOLEAN :
          ValidatesAgain(s, authenticateAccount(St, s[1], s[2], c[1], c[2], setOk))
    /\ \A s \in Serving :
          \A t \in DOMAIN sessions[s[1]] :
              now > Stored(s[1], t).LastUsed + SessionTTL =>
                  authenticateSession(St, s[1], s[2], t).err = SessionExpired

\* C6 witness: a process validated a session of its own map after the
\* clock had passed lastUsed + ttl, and got SessionExpired.
C6_Witness ==
    /\ last.op = "authenticateSession"
    /\ last.err = SessionExpired
    /\ last.key \in DOMAIN sessions[last.p]
    /\ Stored(last.p, last.key).LastUsed = Stored(last.p, last.key).Initialized

\* C7: for a stored session with lastUsed T0 and ttl D whose account can be
\* resolved, authenticateSession succeeds when now <= T0 + D and fails with
\* SessionExpired when now > T0 + D.
C7_ExpiryBoundary ==
    \A s \in Serving, t \in Tokens :
        Known(s[1], t) /\ Resolvable(s[1], t) =>
            LET T0 == Stored(s[1], t).LastUsed
                D == Stored(s[1], t).TTL
                res == authenticateSession(St, s[1], s[2], t)
            IN  /\ now <= T0 + D => res.err = NoErr
                /\ now > T0 + D => res.err = SessionExpired

\* C7 witness: authenticateSession answered SessionExpired at exactly
\* T0 + D + 1.
C7_Witness ==
    /\ last.op = "authenticateSession"
    /\ last.err = SessionExpired
    /\ Known(last.p, last.key)
    /\ now = Stored(last.p, last.key).LastUsed + Stored(last.p, last.key).TTL + 1

\* C8 (as stated): after a successful authenticateSession(t) the record a
\* later getSession(t) returns has lastUsed = now, whether it came from the
\* process's own map or from memcache.
C8_LastUsedRefreshed ==
    last.op = "authenticateSession" /\ last.err = NoErr =>
        LET later == getSession(St, last.p, last.key)
        IN  /\ later.err = NoErr
            /\ Deref(St, later.session).LastUsed = now

C10_ClearReportsExistence ==
    \A p \in Procs, t \in Tokens :
        LET first == ClearSession(St, p, NoRequest, t)
            second == ClearSession(first.S, p, NoRequest, t)
        IN  /\ t \notin DOMAIN first.S.memcache
            /\ t \notin DOMAIN first.S.sessions[p]
            /\ first.ok = Known(p, t)
            /\ second.ok = FALSE
            /\ second.S = first.S

\* The tokens of the sessions createSession has made so far.
HandedOut == {heap[i].Key : i \in 1..Len(heap)}

\* Whether this step stored a new session under token t.
Creates(t) == Len(heap') > Len(heap) /\ heap'[Len(heap')].Key = t

SomeAccounts ==
    {Account("acme", "k1", AccountKey("acme")), Account("open", "", AccountKey("open"))}

SomeSessions == {NilSession} \cup {HeapPtr(i) : i \in 1..Len(heap)}

Bob ==
    [nil |-> FALSE, Username |-> "bob", Password |-> "",
     EncryptedPassword |-> StoredPassword, AccountKey |-> AccountKey("acme"),
     LastLogin |-> 0, Key |-> UserKey("bob")]

SomeUsers == {NilUser, Bob}

\* What the three getters answer for a request id.
Identity(S, p, r) == <<GetAccount(S, p, r), GetSession(S, p, r), GetUser(S, p, r)>>

\* Whether any of the three maps has an entry for the request id.
Cached(S, p, r) ==
    \/ r \in DOMAIN S.authenticatedAccounts[p]
    \/ r \in DOMAIN S.authenticatedSessions[p]
    \/ r \in DOMAIN S.authenticatedUsers[p]

\* C12: for a request id without an entry, and for one whose entry has just
\* been cleared, GetSession and GetUser fail with Unauthenticated and so
\* does GetAccount when no mock is set; after storeAuthenticatedRequest for
\* an id, over an existing entry or not, the three getters return exactly
\* the account (no mock set), session and user stored.
C12_CacheGetStore ==
    \A r \in ReqIds :
        LET cleared == ClearAuthenticatedRequest(St, 1, r)
            Absent(S) ==
                /\ GetSession(S, 1, r) = [session |-> NilSession, err |-> Unauthenticated]
                /\ GetUser(S, 1, r) = [user |-> NilUser, err |-> Unauthenticated]
                /\ mockAccount[1].nil =>
                      GetAccount(S, 1, r) = [acct |-> NilAccount, err |-> Unauthenticated]
        IN  /\ ~Cached(St, 1, r) => Absent(St)
            /\ Absent(cleared)
            /\ \A acct \in SomeAccounts, session \in SomeSessions, user \in SomeUsers :
                  LET stored == storeAuthenticatedRequest(St, 1, r, acct, session, user)
                  IN  /\ GetSession(stored, 1, r) = [session |-> session, err |-> NoErr]
                      /\ GetUser(stored, 1, r) = [user |-> user, err |-> NoErr]
                      /\ mockAccount[1].nil =>
                            GetAccount(stored, 1, r) = [acct |-> acct, err |-> NoErr]

\* C12 witness: with no mock set, authenticateSession has stored request
\* r1's entry: the session of the token, made for user bob, now cached
\* without a user.
C12_Witness ==
    /\ last.op = "authenticateSession"
    /\ last.err = NoErr
    /\ mockAccount[1].nil
    /\ ~Cached(St, 1, "r2")
    /\ Cached(St, 1, "r1")
    /\ authenticatedUsers[1]["r1"].nil
    /\ Deref(St, authenticatedSessions[1]["r1"]).Key = last.key
    /\ ~sessionToUser[1][authenticatedSessions[1]["r1"].id].nil

\* C13: for two distinct request ids a and b of a process, a store under b
\* changes nothing the getters answer for a, and ClearAuthenticatedRequest
\* for a removes a from the account, session and user maps and leaves the
\* three maps as they were for b.
C13_CacheIsolation ==
    \A a \in ReqIds, b \in ReqIds :
        a # b =>
        LET cleared == ClearAuthenticatedRequest(St, 1, a)
        IN  /\ ~Cached(cleared, 1, a)
            /\ Cached(cleared, 1, b) = Cached(St, 1, b)
            /\ Identity(cleared, 1, b) = Identity(St, 1, b)
            /\ \A acct \in SomeAccounts, session \in SomeSessions, user \in SomeUsers :
                  LET stored == storeAuthenticatedRequest(St, 1, b, acct, session, user)
                  IN  /\ Identity(stored, 1, a) = Identity(St, 1, a)
                      /\ Cached(stored, 1, a) = Cached(St, 1, a)

\* C13 witness: a request's entry has just been cleared while the other
\* request of the process keeps its own.
C13_Witness ==
    /\ last.op = "ClearAuthenticatedRequest"
    /\ mockAccount[1].nil
    /\ ~Cached(St, 1, "r1")
    /\ Cached(St, 1, "r2")
    /\ GetAccount(St, 1, "r2").err = NoErr
    /\ GetAccount(St, 1, "r1").err = Unauthenticated

\* C14: for every request and both middlewares, when AuthenticateRequest
\* fails with Unauthenticated the closure answers 401 with an empty body,
\* when it fails with another error it answers 500 with the error text,
\* and in both cases it ends without running the wrapped value; and a
\* request that ended on a failed authentication never ran it.
C14_FailureMapping ==
    /\ \A fn \in FuncTypes \cup {"func", "http.Handler"},
          req \in MiddlewareRequests, setOk \in BOOLEAN :
          LET res == AuthenticateRequest(St, 1, "r1", req, setOk)
              h == (IF fn = "http.Handler"
                    THEN AuthenticatedHandler(St, 1, "r1", req, setOk)
                    ELSE AuthenticatedFunc(St, 1, "r1", fn, req, setOk)).handling
          IN  /\ res.err = Unauthenticated =>
                    h.status = 401 /\ h.body = "" /\ h.pc = "ended"
              /\ res.err \in {NoSuchAccount, InvalidApiKey, InvalidPassword,
                              SessionExpired, OrphanedUser, DatastoreDone} =>
                    h.status = 500 /\ h.body = res.err /\ h.pc = "ended"
    /\ handling.pc = "ended" /\ handling.err \notin {NoErr, Panic} =>
          /\ handling.invoked = 0
          /\ handling.status = IF handling.err = Unauthenticated THEN 401 ELSE 500

\* C14 witness: AuthenticatedHandler has answered a request whose API key
\* was wrong with 500 and the error text, the handler not run.
C14_Witness ==
    /\ last.op = "AuthenticatedHandler"
    /\ handling.pc = "ended"
    /\ handling.err = InvalidApiKey
    /\ handling.status = 500
    /\ handling.body = InvalidApiKey
    /\ handling.invoked = 0

\* C15: with no mock in force and a wrapped value of a supported type, the
\* wrapped operation runs at most once per request, and when it runs the
\* request's cache entry is present and GetAccount gives it the account
\* AuthenticateRequest returned; until it has run the entry stays; and when
\* it has returned normally and the closure has ended, the closure has run
\* it once and cleared the entry once, and GetAccount, GetSession and
\* GetUser for the request fail with Unauthenticated.
C15_InvokedThenCleared ==
    /\ handling.invoked <= 1
    /\ handling.pc = "wrapped" =>
          /\ handling.invoked = 0
          /\ handling.err = NoErr
          /\ ~handling.mocked => Cached(St, 1, "r1")
    /\ handling.invoked = 1 /\ ~handling.mocked =>
          /\ handling.present
          /\ ~handling.seen.nil
          /\ handling.seen = handling.acct
    /\ handling.pc = "clear" => handling.invoked = 1 /\ handling.cleared = 0
    /\ handling.pc = "ended" /\ handling.err = NoErr /\ ~handling.panicked =>
          /\ handling.invoked = 1
          /\ handling.cleared = 1
          /\ ~Cached(St, 1, "r1")
          /\ GetSession(St, 1, "r1").err = Unauthenticated
          /\ GetUser(St, 1, "r1").err = Unauthenticated
          /\ mockAccount[1].nil => GetAccount(St, 1, "r1").err = Unauthenticated

\* C15 witness: an AuthFunc ran once for an authenticated request, saw the
\* account in the cache, returned, and the closure has cleared the entry.
C15_Witness ==
    /\ last.op = "ClearAuthenticatedRequest"
    /\ handling.pc = "ended"
    /\ handling.fn = "AuthFunc"
    /\ handling.err = NoErr
    /\ ~handling.mocked
    /\ handling.invoked = 1
    /\ handling.present
    /\ handling.seen.Slug = "acme"
    /\ handling.cleared = 1
    /\ ~Cached(St, 1, "r1")

\* C16 (as stated): a request for which AuthenticateRequest returned
\* without error ends with its cache entry cleared exactly once and no
\* longer present, however the wrapped value ended.
C16_AlwaysCleared ==
    handling.pc = "ended" /\ handling.err = NoErr =>
        /\ handling.cleared = 1
        /\ ~Cached(St, 1, "r1")

\* C17: while a mock account is set, AuthenticateRequest returns it
\* without error for every request and changes nothing, and GetAccount
\* returns it for every request id; and when a mock is set in a state
\* without one, any request is resolved under it and the mock is cleared
\* again, the state is the one before, so that every request is resolved
\* as it was going to be.
C17_MockOverride ==
    \A req \in Requests, setOk \in BOOLEAN :
        LET res == AuthenticateRequest(St, 1, "r1", req, setOk)
            mocked == MockAccount(St, 1, MockedAccount)
            under == AuthenticateRequest(mocked, 1, "r1", req, setOk)
            after == MockAccount(under.S, 1, NilAccount)
        IN  /\ ~mockAccount[1].nil =>
                  /\ res.acct = mockAccount[1]
                  /\ res.err = NoErr
                  /\ res.S = St
                  /\ res.resp = NoResponse
                  /\ \A r \in ReqIds :
                        GetAccount(St, 1, r) = [acct |-> mockAccount[1], err |-> NoErr]
            /\ mockAccount[1].nil =>
                  /\ under.acct = MockedAccount /\ under.err = NoErr
                  /\ after = St
                  /\ AuthenticateRequest(after, 1, "r1", req, setOk) = res
                  /\ GetAccount(after, 1, "r1") = GetAccount(St, 1, "r1")

\* C17 witness: under a mock, a request carrying a session token was
\* answered with the mock account, while the request's cache entry holds
\* another account.
C17_Witness ==
    /\ last.op = "AuthenticateRequest"
    /\ last.via = "mock"
    /\ last.err = NoErr
    /\ last.from = "header"
    /\ ~mockAccount[1].nil
    /\ Cached(St, 1, "r1")
    /\ authenticatedAccounts[1]["r1"] # mockAccount[1]

\* What createSession(acct, user) for request r leaves behind, the shared
\* cache apart: the new session's fields, its place in the local map, the
\* reverse lookups and the request's cache entry.
CreatedLocally(made, acct, user, r) ==
    LET rec == Deref(made.S, made.session)
    IN  /\ made.err = NoErr
        /\ ~made.session.nil
        /\ rec.Initialized = now
        /\ rec.LastUsed = now
        /\ rec.TTL = 3
        /\ rec.Account = AccountKey(acct.Slug)
        /\ rec.User # NilKey <=> ~user.nil
        /\ rec.Key \in DOMAIN made.S.sessions[1]
        /\ made.S.sessions[1][rec.Key] = made.session
        /\ made.S.sessionToAccount[1][made.session.id] = made.acct
        /\ made.S.sessionToUser[1][made.session.id] = user
        /\ made.acct = Account(acct.Slug, acct.ApiKey, AccountKey(acct.Slug))
        /\ made.S.authenticatedAccounts[1][r] = made.acct
        /\ made.S.authenticatedSessions[1][r] = made.session
        /\ made.S.authenticatedUsers[1][r] = user

\* The accounts createSession is given: with their key cached or not.
GivenAccounts == SomeAccounts \cup {Account("acme", "k1", NilKey)}

\* C18 (as stated): createSession yields the session described above and
\* afterwards the shared cache holds it under its token, whatever happens
\* to the cache write.
C18_StoredInBothStores ==
    \A acct \in GivenAccounts, user \in SomeUsers, r \in ReqIds, setOk \in BOOLEAN :
        LET made == createSession(St, 1, r, acct, user, setOk)
            rec == Deref(made.S, made.session)
        IN  /\ CreatedLocally(made, acct, user, r)
            /\ rec.Key \in DOMAIN made.S.memcache
            /\ made.S.memcache[rec.Key] = rec

\* C18 (amended): createSession(account, user or none) at time now yields
\* a session with initialized = lastUsed = now, ttl = 3 hours, the
\* account's key as account reference and a user reference exactly when a
\* user was given; the session is in the local map under its token, the
\* reverse lookups map it to the account and the user, the request's cache
\* entry holds (account, session, user); and the shared cache holds the
\* session under its token when the cache write succeeded and is left as
\* it was when the write failed.
C18_StoredLocallyAndWhenWritten ==
    \A acct \in GivenAccounts, user \in SomeUsers, r \in ReqIds, setOk \in BOOLEAN :
        LET made == createSession(St, 1, r, acct, user, setOk)
            rec == Deref(made.S, made.session)
        IN  /\ CreatedLocally(made, acct, user, r)
            /\ setOk => /\ rec.Key \in DOMAIN made.S.memcache
                        /\ made.S.memcache[rec.Key] = rec
            /\ ~setOk => made.S.memcache = memcache

\* C18 witness: after the clock has advanced, authenticateAccountByUser has
\* created a session with a user reference; it is in the local map, and
\* not in the shared cache, the write having failed.
C18_Witness ==
    /\ last.op = "authenticateAccountByUser"
    /\ last.err = NoErr
    /\ now > 0
    /\ \E t \in DOMAIN sessions[1] :
          /\ Stored(1, t).Initialized = now
          /\ Stored(1, t).User = UserKey("bob")
          /\ t \notin DOMAIN memcache
          /\ authenticatedSessions[1]["r1"] = sessions[1][t]
          /\ ~authenticatedUsers[1]["r1"].nil

\* Whether a stored user has this username and password.
ValidLogin(username, password) ==
    \E k \in DOMAIN dsUsers :
        /\ dsUsers[k].Username = username
        /\ decrypt(ConfiguredKey, dsUsers[k].EncryptedPassword).out = ToBytes(password)

\* C19: authenticateAccount and authenticateAccountByUser return the same
\* account and error whether the shared-cache write of the new session
\* succeeds or fails, and for valid credentials that is the account and no
\* error.
C19_CacheFailureTolerated ==
    /\ \A c \in Credentials :
          LET ok == authenticateAccount(St, 1, "r1", c[1], c[2], TRUE)
              ko == authenticateAccount(St, 1, "r1", c[1], c[2], FALSE)
          IN  /\ ko.err = ok.err
              /\ ko.acct = ok.acct
              /\ (\E k \in WithSlug(c[1]) : dsAccounts[k].ApiKey = c[2]) =>
                    ko.err = NoErr /\ ko.acct.Slug = c[1]
    /\ \A l \in Logins :
          LET ok == authenticateAccountByUser(St, 1, "r1", l[1], l[2], TRUE)
              ko == authenticateAccountByUser(St, 1, "r1", l[1], l[2], FALSE)
          IN  /\ ko.err = ok.err
              /\ ko.acct = ok.acct
              /\ ValidLogin(l[1], l[2]) => ko.err = NoErr /\ ~ko.acct.nil

\* C19 witness: authenticateAccount returned without error although the
\* session it created did not reach the shared cache.
C19_Witness ==
    /\ last.op = "authenticateAccount"
    /\ last.err = NoErr
    /\ Cached(St, 1, "r1")
    /\ authenticatedAccounts[1]["r1"].Slug = last.key
    /\ Deref(St, authenticatedSessions[1]["r1"]).Key \notin DOMAIN memcache

\* C20: getSession(t) returns the session of the process-local map
\* whenever that map contains t, whatever the shared cache holds under t;
\* otherwise it returns a copy of the shared cache's record under t; and it
\* fails, returning no session, exactly when t is in neither.
C20_LocalThenShared ==
    \A p \in Procs, t \in Tokens :
        LET got == getSession(St, p, t)
        IN  /\ t \in DOMAIN sessions[p] =>
                  /\ got.err = NoErr
                  /\ got.session = sessions[p][t]
                  /\ Deref(St, got.session) = heap[sessions[p][t].id]
            /\ t \notin DOMAIN sessions[p] /\ t \in DOMAIN memcache =>
                  /\ got.err = NoErr
                  /\ ~got.session.nil
                  /\ Deref(St, got.session) = memcache[t]
            /\ got.err # NoErr <=>
                  t \notin DOMAIN sessions[p] /\ t \notin DOMAIN memcache
            /\ got.err # NoErr => got.session.nil

\* C20 witness: authenticateSession has just succeeded on a token whose
\* record in the local map (last used now) differs from the one the shared
\* cache holds, and another process has the token in the shared cache only.
C20_Witness ==
    /\ last.op = "authenticateSession"
    /\ last.err = NoErr
    /\ last.key \in DOMAIN sessions[last.p]
    /\ last.key \in DOMAIN memcache
    /\ Stored(last.p, last.key) # memcache[last.key]
    /\ Stored(last.p, last.key).LastUsed = now
    /\ \E q \in Procs : last.key \notin DOMAIN sessions[q]

\* C30: after AuthenticateRequest has authenticated a request by slug and
\* API key and so created a session, the response carries that session's
\* token in the X-session header, exposes X-session, and sets the cookie
\* X-session to the token with path "/" and the host of the Origin header
\* without its port as domain; and the call does not panic, whatever the
\* Origin header holds.
C30_SessionSentToOriginHost ==
    \A o \in Origins, setOk \in BOOLEAN :
        LET req == Request("acme", "k1", "", "", "", NoCookie, o)
            auth == authenticateAccount(St, 1, "r1", "acme", "k1", setOk)
            res == AuthenticateRequest(St, 1, "r1", req, setOk)
            token == Deref(auth.S, GetSession(auth.S, 1, "r1").session).Key
        IN  mockAccount[1].nil /\ auth.err = NoErr /\ Len(auth.S.heap) <= MaxObjs =>
                /\ res.err = NoErr
                /\ res.resp.header = token
                /\ res.resp.expose = "X-session"
                /\ res.resp.cookie = Cookie(token)
                /\ res.resp.path = "/"
                /\ res.resp.domain = StripPort(UrlParse(o).Host)

\* C22: when an account is established for the request, AuthenticateUser
\* does not authenticate as a user whose stored account reference is
\* another account, even when the username and password match.
C22_LookupScopedToAccount ==
    \A r \in ReqIds, l \in Logins :
        LET established == GetAccount(St, 1, r)
            au == AuthenticateUser(St, 1, r, l[1], l[2])
        IN  established.err = NoErr /\ established.acct.Key # NilKey
                /\ au.err = NoErr =>
                \A k \in DOMAIN dsUsers :
                    dsUsers[k].Username = l[1] =>
                        dsUsers[k].AccountKey = established.acct.Key

\* Whether a stored user's account reference names a stored account.
Owned(k) == dsUsers[k].AccountKey \in DOMAIN dsAccounts

\* C21: for a stored user, AuthenticateUser fails with InvalidPassword on
\* a password that differs from the stored one; on the right password the
\* stored user's last login becomes now, and authenticateAccountByUser
\* returns the owning account with a session bound to account and user
\* that GetUser reports for the request, or fails as orphaned, creating no
\* session, when the user's account reference cannot be loaded.
C21_UserAuthentication ==
    \A r \in ReqIds, l \in Logins, k \in DOMAIN dsUsers :
        LET au == AuthenticateUser(St, 1, r, l[1], l[2])
            res == authenticateAccountByUser(St, 1, r, l[1], l[2], TRUE)
            session == Deref(res.S, GetSession(res.S, 1, r).session)
        IN  dsUsers[k].Username = l[1] =>
                IF decrypt(ConfiguredKey, dsUsers[k].EncryptedPassword).out # ToBytes(l[2])
                THEN au.err = InvalidPassword
                ELSE /\ au.err = NoErr
                     /\ au.S.dsUsers[k].LastLogin = now
                     /\ IF Owned(k)
                        THEN /\ res.err = NoErr
                             /\ res.acct.Key = dsUsers[k].AccountKey
                             /\ session.Account = dsUsers[k].AccountKey
                             /\ session.User = k
                             /\ GetUser(res.S, 1, r).user.Key = k
                        ELSE /\ res.err = OrphanedUser
                             /\ res.S.heap = heap

\* C28: with a fixed valid key, decrypt(encrypt(p)) = p for every byte
\* payload p; the ciphertext is one block, the initialization vector,
\* longer than p; and an encryption of p that draws another vector gives
\* another ciphertext, which decrypts to p too.
C28_RoundTrip ==
    /\ result.op = "encrypt" =>
          /\ result.err = NoErr
          /\ Len(result.out) = Len(result.arg) + BlockSize
          /\ decrypt(encryptionKey[1], result.out) = [out |-> result.arg, err |-> NoErr]
          /\ \A iv \in Blocks \ {result.iv} :
                LET other == encrypt(encryptionKey[1], result.arg, iv)
                IN  /\ other.err = NoErr
                    /\ other.out # result.out
                    /\ decrypt(encryptionKey[1], other.out).out = result.arg
    /\ result.op = "decrypt" =>
          /\ result.err = NoErr
          /\ result.out = result.src

\* C28 witness: a payload longer than one block, with a last block that is
\* not full, has been encrypted to bytes that differ from it and decrypted.
C28_Witness ==
    /\ result.op = "decrypt"
    /\ Len(result.src) > BlockSize
    /\ Len(result.src) % BlockSize # 0
    /\ Drop(result.arg, BlockSize) # result.src
    /\ result.out = result.src

\* The runes GenerateSlug keeps, in the order of the string.
KeptRunes(str) ==
    SelectSeq(str, LAMBDA c : c \in {" ", "_", "-"} \cup UpperLetters
                                    \cup LowerLetters \cup Digits)

\* What GenerateSlug returned has no white space at its ends, no upper-case
\* letter, and nothing but letters, digits, hyphens and underscores.
WellFormedSlug(slug) ==
    /\ slug # <<>> => slug[1] \notin WhiteSpace /\ slug[Len(slug)] \notin WhiteSpace
    /\ \A i \in 1..Len(slug) :
          slug[i] \in LowerLetters \cup Digits \cup {"-", "_"}

\* C26 (as stated): GenerateSlug(n) has no leading or trailing white space
\* and no upper-case letter, carries a hyphen for each space, underscore
\* and hyphen of the trimmed name and each of its letters (in lower case)
\* and digits, drops every other character, and is idempotent.
C26_UnderscoreBecomesHyphen ==
    result.op = "GenerateSlug" =>
        LET kept == KeptRunes(TrimSpace(result.arg))
        IN  /\ WellFormedSlug(result.out)
            /\ Len(result.out) = Len(kept)
            /\ \A i \in 1..Len(kept) :
                  result.out[i] = IF kept[i] \in {" ", "_", "-"} THEN "-"
                                  ELSE ToLowerRune(kept[i])
            /\ GenerateSlug(result.out) = result.out

\* C26 (amended): GenerateSlug(n) has no leading or trailing white space
\* and no upper-case letter, carries a hyphen for each space and hyphen of
\* the trimmed name, and each of its underscores, letters (in lower case)
\* and digits unchanged, drops every other character, and is idempotent.
C26_SlugShape ==
    result.op = "GenerateSlug" =>
        LET kept == KeptRunes(TrimSpace(result.arg))
        IN  /\ WellFormedSlug(result.out)
            /\ Len(result.out) = Len(kept)
            /\ \A i \in 1..Len(kept) :
                  result.out[i] = IF kept[i] \in {" ", "-"} THEN "-"
                                  ELSE ToLowerRune(kept[i])
            /\ GenerateSlug(result.out) = result.out
            /\ result.src # <<>> => result.out = result.arg

\* C26 witness: GenerateSlug was given the slug it had made from a name
\* with white space at an end, an upper-case letter, and a dropped rune.
C26_Witness ==
    /\ result.op = "GenerateSlug"
    /\ result.src # <<>>
    /\ result.src[1] \in WhiteSpace
    /\ \E i \in 1..Len(result.src) : result.src[i] \in UpperLetters
    /\ Len(result.arg) < Len(TrimSpace(result.src))
    /\ result.out = result.arg

\* C29: in a process that has configured no encryption key, encrypt and
\* decrypt return an error, and saving or authenticating a user ends in an
\* error, never in a panic.
C29_NoKeyIsAnError ==
    \A p \in Procs :
        encryptionKey[p] = NoKey =>
            /\ encrypt(encryptionKey[p], ToBytes("pw"), Iv(1)).err \notin {NoErr, Panic}
            /\ decrypt(encryptionKey[p], StoredPassword).err \notin {NoErr, Panic}
            /\ ~UserBeforeSave(St, p, "r1", NewUser("eve", "pw")).panic
            /\ \A l \in Logins :
                  authenticateAccountByUser(St, p, "r1", l[1], l[2], TRUE).err # Panic

\* The slugs of the stored entities of a kind.
TakenSlugs(S, kind) == {Entities(S, kind)[k].Slug : k \in DOMAIN Entities(S, kind)}

\* The smallest N >= 2 for which base-N is not taken.
FirstFree(taken, base) ==
    CHOOSE n \in 2..(Cardinality(taken) + 2) :
        /\ Suffixed(base, n) \notin taken
        /\ \A m \in 2..(n - 1) : Suffixed(base, m) \in taken

\* The slug the claim names, and the number of count queries it takes.
FreeSlug(taken, base) ==
    IF base \notin taken THEN base ELSE Suffixed(base, FirstFree(taken, base))
QueriesFor(taken, base) ==
    IF base \notin taken THEN 1 ELSE FirstFree(taken, base)

\* The names GenerateUniqueSlug is asked about: the names saved under, and
\* one whose slug is empty.
AskedNames == SlugNames \cup {<<"b">>, <<"!">>}

\* C23 as stated: GenerateUniqueSlug(kind, name) returns the base slug s when
\* no stored entity of the kind has it, and otherwise s-N for the smallest
\* N >= 2 that no stored entity has; what it returns is never the slug of a
\* stored entity.
C23_SmallestFreeSlug ==
    \A kind \in Kinds, name \in AskedNames, failAt \in 0..(MaxSaved + 2) :
        LET got == GenerateUniqueSlug(St, kind, name, failAt)
            taken == TakenSlugs(St, kind)
        IN  /\ got = FreeSlug(taken, Str(GenerateSlug(name)))
            /\ got \notin taken

\* C23 amended: when every count query of the call succeeds the result is
\* s or s-N for the smallest free N >= 2 and is not the slug of a stored
\* entity; when one of the queries the search makes fails the result is "".
C23_SmallestFreeSlugUnlessQueryFails ==
    \A kind \in Kinds, name \in AskedNames, failAt \in 0..(MaxSaved + 2) :
        LET got == GenerateUniqueSlug(St, kind, name, failAt)
            taken == TakenSlugs(St, kind)
            base == Str(GenerateSlug(name))
        IN  IF failAt \in 1..QueriesFor(taken, base)
            THEN got = ""
            ELSE /\ got = FreeSlug(taken, base)
                 /\ got \notin taken
                 /\ QueriesFor(taken, base) <= Cardinality(taken) + 1

\* Objects with the slugs "ab" and "ab-2" were saved, the second with the
\* slug GenerateUniqueSlug gave after the collision; the next is "ab-3".
C23_Witness ==
    /\ last.op = "Save"
    /\ saving[1].pc = "done"
    /\ saving[1].err = NoErr
    /\ saving[1].obj.Slug = "ab-2"
    /\ {"ab", "ab-2"} \subseteq TakenSlugs(St, "DummyObject")
    /\ GenerateUniqueSlug(St, "DummyObject", <<"A", "b">>, 0) = "ab-3"

\* a comes before b in the steps of a Save.
Before(steps, a, b) ==
    \E i, j \in 1..Len(steps) : i < j /\ steps[i] = a /\ steps[j] = b

\* The objects Save is given: new, with an id or key, and the one held.
SavedObjects == {DummyObject(NilKey, 0, "ab")} \cup DummyInputs \cup Held(St, 1, "DummyObject")

\* What Save owes its caller, for a DummyObject it was given and what it
\* returned.
SaveContract(S, obj, putOk, res) ==
    /\ Before(res.steps, "BeforeSave", "Put")
    /\ res.obj.BeforeSaveCalled
    /\ putOk =>
          /\ res.err = NoErr
          /\ res.obj.Key = res.key
          /\ \/ res.obj.ID # 0 /\ res.key = IdKey("DummyObject", res.obj.ID)
             \/ /\ res.obj.ID = 0
                /\ \A n \in 1..IdLimit : res.key # IdKey("DummyObject", n)
          /\ Before(res.steps, "Put", "SetKey")
          /\ Before(res.steps, "SetKey", "AfterSave")
          /\ Before(res.steps, "SetID", "AfterSave")
          /\ res.obj.AfterSaveCalled
          /\ res.key \in DOMAIN res.S.dsDummy
          /\ res.S.dsDummy[res.key].Slug = obj.Slug
    /\ ~putOk =>
          /\ res.err = PutFailed
          /\ \A i \in 1..Len(res.steps) : res.steps[i] # "AfterSave"
          /\ res.obj.AfterSaveCalled = obj.AfterSaveCalled
          /\ res.obj.Key = obj.Key
          /\ res.S.dsDummy = S.dsDummy

\* C27: Save on a struct invokes BeforeSave before the put; after a put that
\* succeeds the Key field is the returned key, the ID field is that key's
\* numeric id, AfterSave has been invoked after them and the entity is
\* stored under the returned key; after a put that fails the error is
\* returned, AfterSave is not invoked and the Key field is unchanged.
C27_SaveContract ==
    \A obj \in SavedObjects, allocOk, putOk \in BOOLEAN :
        SaveContract(St, obj, putOk,
                     Save(St, "DummyObject", obj, Env(0, "", allocOk, putOk)))

\* A new object was saved under an allocated id and is held with its key
\* and id; the entity is stored under that key with the object's slug.
C27_Witness ==
    /\ last.op = "Save"
    /\ saving[1].pc = "done"
    /\ saving[1].kind = "DummyObject"
    /\ saving[1].fresh
    /\ saving[1].err = NoErr
    /\ saving[1].obj.AfterSaveCalled
    /\ saving[1].obj.Key = saving[1].key
    /\ saving[1].key = IdKey("DummyObject", saving[1].obj.ID)
    /\ saving[1].key \in DOMAIN dsDummy
    /\ dsDummy[saving[1].key].Slug = saving[1].given.Slug

\* C24: whatever account creations have run and however they interleaved,
\* no two stored accounts have the same slug, and no creation has replaced
\* an account that was stored before its put.
C24_SlugsUnique ==
    /\ \A k1, k2 \in DOMAIN dsAccounts :
          k1 # k2 => dsAccounts[k1].Slug # dsAccounts[k2].Slug
    /\ \A p \in Procs :
          (/\ saving[p].pc = "done"
           /\ saving[p].kind = "Account"
           /\ saving[p].fresh
           /\ saving[p].err = NoErr) => ~saving[p].existed

\* C25: an account that is handed to Save with a non-empty API key has the
\* same API key after the BeforeSave hook and after the Save.
C25_ApiKeyStable ==
    \A p \in Procs :
        (/\ saving[p].pc # "idle"
         /\ saving[p].kind = "Account"
         /\ saving[p].given.ApiKey # "") =>
            saving[p].obj.ApiKey = saving[p].given.ApiKey

\* C31: once authenticateSession(t) has failed with SessionExpired, a later
\* authenticateSession(t), in whichever process, fails too, as long as the
\* session has not been deleted or created anew.
C31_ExpiredForGood ==
    (last.op = "authenticateSession" /\ last.err = SessionExpired) =>
        \A s \in Serving :
            authenticateSession(St, s[1], s[2], last.key).err # NoErr

\* C37: whenever GetUser returns no error for a request, the user it
\* returns is not nil.
C37_UserWhenNoError ==
    \A p \in Procs, r \in ReqIds :
        GetUser(St, p, r).err = NoErr => ~GetUser(St, p, r).user.nil

\* C38: the token of a session createSession makes is not the token of a
\* session that is in a local map or in the shared cache.
C38_FreshToken ==
    \A s \in Serving, c \in Credentials :
        LET made == authenticateAccount(St, s[1], s[2], c[1], c[2], TRUE)
            token == Deref(made.S, GetSession(made.S, s[1], s[2]).session).Key
        IN  made.err = NoErr =>
                /\ token \notin DOMAIN memcache
                /\ \A p \in Procs : token \notin DOMAIN sessions[p]

\* C39: the account reference stored for a user after a successful
\* AuthenticateUser is the one stored before it, whatever account is
\* established for the request.
C39_AccountOfUserKept ==
    \A r \in ReqIds, l \in Logins :
        LET res == AuthenticateUser(St, 1, r, l[1], l[2])
        IN  res.err = NoErr =>
                \A k \in DOMAIN dsUsers :
                    res.S.dsUsers[k].AccountKey = dsUsers[k].AccountKey

\* C40: after ClearSession(t) has completed in one process,
\* authenticateSession(t) fails with Unauthenticated in every process.
C40_LoggedOutEverywhere ==
    (last.op = "ClearSession" /\ last.key # "") =>
        \A s \in Serving :
            authenticateSession(St, s[1], s[2], last.key).err = Unauthenticated

\* C35: in every process the account map, the session map and the user
\* map of the request identity cache have the same request ids as keys, and
\* for every id the account reference of the cached session is the key of
\* the cached account.
C35_IdentityTuple ==
    \A p \in Procs :
        /\ DOMAIN authenticatedSessions[p] = DOMAIN authenticatedAccounts[p]
        /\ DOMAIN authenticatedUsers[p] = DOMAIN authenticatedAccounts[p]
        /\ \A r \in DOMAIN authenticatedAccounts[p] :
              Deref(St, authenticatedSessions[p][r]).Account =
                  authenticatedAccounts[p][r].Key

\* C35 witness: both requests of process 1 have an entry, one of them for a
\* session bound to a user.
C35_Witness ==
    /\ DOMAIN authenticatedAccounts[1] = ReqIds
    /\ \E r \in ReqIds : ~authenticatedUsers[1][r].nil
    /\ \E r \in ReqIds : authenticatedUsers[1][r].nil

\* C34: when authenticateAccount returns NoSuchAccount or InvalidApiKey it
\* has created and stored no session and written no entry of the request
\* identity cache, and AuthenticateRequest for the same account headers
\* returns that error and sends no session header or cookie.
C34_FailedAccountCreatesNothing ==
    \A c \in Credentials, setOk \in BOOLEAN, t \in Tokens \cup {""} :
        LET res == authenticateAccount(St, 1, "r1", c[1], c[2], setOk)
            answered == AuthenticateRequest(St, 1, "r1",
                            Request(c[1], c[2], "", "", t, NoCookie, ValidOrigin), setOk)
        IN  res.err \in {NoSuchAccount, InvalidApiKey} =>
                /\ res.acct.nil
                /\ res.S.heap = heap
                /\ res.S.sessions = sessions
                /\ res.S.memcache = memcache
                /\ res.S.sessionToAccount = sessionToAccount
                /\ res.S.sessionToUser = sessionToUser
                /\ res.S.authenticatedAccounts = authenticatedAccounts
                /\ res.S.authenticatedSessions = authenticatedSessions
                /\ res.S.authenticatedUsers = authenticatedUsers
                /\ answered.err = res.err
                /\ answered.S = res.S
                /\ answered.resp = NoResponse

\* C34 witness: authenticateAccount has just failed with InvalidApiKey in
\* a process that holds a session and an identity cache entry from before.
C34_Witness ==
    /\ last.op = "authenticateAccount"
    /\ last.err = InvalidApiKey
    /\ sessions[1] # EmptyCache
    /\ "r1" \in DOMAIN authenticatedAccounts[1]

\* C33: when authenticateSession returns Unauthenticated or SessionExpired,
\* the session records (lastUsed included), the local session maps, the
\* shared cache, the reverse lookups and the request identity cache of
\* every request id are the ones from before the call.
C33_FailedSessionChangesNothing ==
    \A s \in Serving, t \in Tokens \cup {"", "bogus"} :
        LET res == authenticateSession(St, s[1], s[2], t)
        IN  res.err \in {Unauthenticated, SessionExpired} =>
                /\ res.acct.nil /\ res.session.nil
                /\ res.S.heap = heap
                /\ res.S.sessions = sessions
                /\ res.S.memcache = memcache
                /\ res.S.sessionToAccount = sessionToAccount
                /\ res.S.sessionToUser = sessionToUser
                /\ res.S.authenticatedAccounts = authenticatedAccounts
                /\ res.S.authenticatedSessions = authenticatedSessions
                /\ res.S.authenticatedUsers = authenticatedUsers

\* C33 witness: authenticateSession has just reported SessionExpired for a
\* session that the process holds in its local map and has cached for the
\* request.
C33_Witness ==
    /\ last.op = "authenticateSession"
    /\ last.err = SessionExpired
    /\ last.key \in DOMAIN sessions[last.p]
    /\ authenticatedSessions[last.p] # EmptyCache

\* C36: the lastUsed of a session record never decreases from one state to
\* the next, whichever way the statements of concurrent authenticateSession
\* calls interleave, and never lies before initialized.
C36_LastUsedNeverBack ==
    [][\A i \in 1..Len(heap) :
          /\ heap'[i].LastUsed >= heap[i].LastUsed
          /\ heap'[i].LastUsed >= heap'[i].Initialized]_vars

\* The two calls have returned after running side by side on one session
\* object that was within its TTL, counted from lastUsed as the first of
\* them found it, at the clock reading of each.
RacedOnValid(c1, c2) ==
    LET before == IF c1.seen < c2.seen THEN c1.seen ELSE c2.seen
    IN  /\ c1.pc = "done" /\ c2.pc = "done"
        /\ c1.raced /\ c2.raced
        /\ c1.at <= before + SessionTTL
        /\ c2.at <= before + SessionTTL

\* C32: when two requests have run authenticateSession side by side on the
\* same valid session record, both calls succeeded, the identity cache
\* entries of the two requests hold the same account and the same session,
\* and lastUsed of the session is the clock reading of the call that
\* assigned it last.
C32_LastWriterWins ==
    LET c1 == validating["r1"]
        c2 == validating["r2"]
    IN  RacedOnValid(c1, c2) =>
            /\ c1.err = NoErr /\ c2.err = NoErr
            /\ {"r1", "r2"} \subseteq DOMAIN authenticatedAccounts[1]
            /\ authenticatedAccounts[1]["r1"] = authenticatedAccounts[1]["r2"]
            /\ authenticatedSessions[1]["r1"] = authenticatedSessions[1]["r2"]
            /\ authenticatedSessions[1]["r1"] = c1.session
            /\ authenticatedAccounts[1]["r1"].Key = Deref(St, c1.session).Account
            /\ c1.wrote # c2.wrote
            /\ Deref(St, c1.session).LastUsed = (IF c1.wrote THEN c1.at ELSE c2.at)

\* C32 witness: the two calls have raced on a valid session and the one
\* that assigned lastUsed last had read the clock first, at an earlier
\* time than the other.
C32_Witness ==
    /\ RacedOnValid(validating["r1"], validating["r2"])
    /\ validating["r1"].wrote
    /\ validating["r1"].at < validating["r2"].at
====
